---- MODULE Spec2Model ----
(***************************************************************************)
(* A model of crawl4ai-scraper: the bounded concurrent batch crawl         *)
(* (ContentCrawler.crawl_urls), the breadth-first URL discovery            *)
(* (URLDiscovery.discover_urls), the wildcard pattern matcher              *)
(* (URLPatternHandler) and the line classifier (ContentCleaner).           *)
(*                                                                         *)
(* Text is modelled as a sequence of characters, each character a string   *)
(* of length one; a URL's scheme and host are one token ("x", "y").        *)
(***************************************************************************)
EXTENDS Integers, Sequences, FiniteSets, TLC

VARIABLES
    \* ---- ContentCrawler.crawl_urls (src/crawler.py 547-599)
    urls,              \* the batch: number of URLs, tasks are 1..urls
    page,              \* per URL, what crawler.arun has to offer for it
    concurrent_limit,  \* config.concurrent_limit
    delay_between_requests, \* config.delay_between_requests (0 or 1)
    semaphore,         \* the value of asyncio.Semaphore(concurrent_limit)
    task,              \* task[i]: where crawl_with_semaphore(url_i, i) stands
    fetched,           \* fetched[i]: what the fetch collaborator did for url_i
    results,           \* self.results
    failed_urls,       \* self.failed_urls
    dir_exists,        \* whether config.output_dir exists on disk
    written,           \* the URLs whose page artifact has been written
    summary,           \* <<the summary dict of crawl_urls>>, <<>> before it is built
    summary_file,      \* how many times crawl_summary.json has been written
    cpc,               \* where crawl_urls itself stands
    \* ---- URLPatternHandler.convert_wildcard_to_regex and re.match on one pattern
    p_pattern,         \* the wildcard pattern
    p_url,             \* the URL it is tried on
    p_regex,           \* the regex text convert_wildcard_to_regex returned
    p_matched,         \* whether re.match(regex, url) found a match
    ppc,               \* "start", "converted", "matched"
    \* ---- URLPatternHandler.match_url_pattern
    m_url,             \* url
    m_patterns,        \* patterns (an optional list)
    m_exclude,         \* exclude_patterns (an optional list)
    m_result,          \* the returned bool
    mpc,               \* "start", "returned"
    \* ---- URLDiscovery.discover_urls (src/crawler.py 167-250)
    start_url,         \* start_url
    d_patterns,        \* patterns (an optional list)
    d_exclude,         \* exclude_patterns (an optional list)
    max_depth,         \* config.max_depth
    max_pages,         \* config.max_pages
    include_external,  \* config.include_external
    d_delay,           \* config.delay_between_requests of the discovery run
    to_visit,          \* the frontier queue
    visited,           \* the visited set
    discovered,        \* the admitted URLs
    depth_map,         \* depth_map
    url_relationships, \* self.url_relationships
    current_url,       \* current_url, <<>> outside an iteration
    fetch_log,         \* the URLs given to crawler.arun, in order
    fetch_failed,      \* the URLs for which crawler.arun raised or reported non-success
    d_return,          \* the returned list
    verbose,           \* config.verbose
    limit_notice,      \* this call of discover_urls has printed the max pages notice
    dpc,               \* "idle", "loop", "fetching", "links", "sleeping", "done"
    \* ---- ContentCleaner._clean_whitespace (src/content_filters.py 328-342)
    w_text,            \* content
    w_once,            \* _clean_whitespace(content)
    w_twice,           \* _clean_whitespace(_clean_whitespace(content))
    wpc,               \* "idle", "start", "once", "twice"
    \* ---- ContentCleaner.clean_markdown_content (src/content_filters.py 58-145)
    markdown,          \* markdown, as passed in
    title,             \* title
    lines,             \* lines: the lines the loop goes through
    line_no,           \* how many lines the loop has taken
    cleaned_lines,     \* cleaned_lines
    content_started,   \* content_started
    in_footer,         \* in_footer
    skip_navigation_section, \* skip_navigation_section
    kept,              \* the indexes of the lines appended to cleaned_lines
    prev_line,         \* <<self._prev_line>>, <<>> while the attribute is not set
    c_result,          \* the returned text
    kpc,               \* "idle", "start", "loop", "join", "done"
    \* ---- crawl_with_discovery, crawl_single, crawl_multiple, crawl_pattern
    \* ---- (src/crawler.py 602-763)
    entry,             \* the function that was called
    dry_run,           \* config.dry_run
    deep_crawl,        \* deep_crawl
    o_urls,            \* urls, or the one start URL in a list
    next_seed,         \* the index in urls of the next URL to discover from
    discovered_urls,   \* discovered_urls
    all_discovered,    \* all_discovered
    crawl_calls,       \* the lists ContentCrawler.crawl_urls was called with
    files,             \* the paths of the files written
    report,            \* the returned dict, <<>> before the return
    opc,               \* "idle", "called", "discovered", "done"
    \* ---- InteractiveCLI (src/main.py 172-196, 1038-1123, 1224-1360)
    config_dry_run,    \* self.config.dry_run
    interrupted,       \* self.interrupted
    choice,            \* the menu choice that is being served, "0" when none
    cli_urls,          \* the URLs the user typed in
    cli_seed,          \* the index in cli_urls of the start URL being discovered
    cli_found,         \* all_discovered
    clipc,             \* "idle", "menu", "discovering", "crawling", "exited"
    \* ---- two runs of discover_urls against the same fetch collaborator
    site,              \* what crawler.arun returns for each URL it was given
    link_no,           \* how many links of the current page the for loop has taken
    run,               \* 0 outside this comparison, else the first or second run
    first_run,         \* the visit order and the returned list of the first run
    \* ---- SelectorExtractor.extract_by_css / extract_by_xpath
    \* ---- (src/selector_utils.py 56-165)
    s_method,          \* "css" or "xpath", "none" when no extraction is going on
    s_selectors,       \* per selector, the nodes of the document it matches
    s_exclude,         \* per exclude rule, the nodes of the document it matches
    extracted_elements, \* extracted_elements
    s_pos,             \* how many passes the exclusion loop has made
    s_result,          \* the nodes whose text is returned
    spc,               \* "idle", "exclude", "done"
    \* ---- one ContentCleaner used for several documents
    passes             \* per finished call: the document, the title, the result

crawlVars == <<urls, page, concurrent_limit, delay_between_requests, semaphore, task,
               fetched, results, failed_urls, dir_exists, written, summary,
               summary_file, cpc>>

patternVars == <<p_pattern, p_url, p_regex, p_matched, ppc>>

matchVars == <<m_url, m_patterns, m_exclude, m_result, mpc>>

discConfig == <<start_url, d_patterns, d_exclude, max_depth, max_pages,
                include_external, d_delay, verbose>>

discVars == <<discConfig, limit_notice, to_visit, visited, discovered, depth_map,
              url_relationships, current_url, fetch_log, fetch_failed, d_return,
              dpc>>

orchVars == <<entry, dry_run, deep_crawl, o_urls, next_seed, discovered_urls,
              all_discovered, crawl_calls, files, report, opc>>

cliVars == <<config_dry_run, interrupted, choice, cli_urls, cli_seed, cli_found,
             clipc>>

twinVars == <<site, link_no, run, first_run>>

againVars == <<passes>>

selVars == <<s_method, s_selectors, s_exclude, extracted_elements, s_pos,
             s_result, spc>>

wsVars == <<w_text, w_once, w_twice, wpc>>

cleanVars == <<markdown, title, lines, line_no, cleaned_lines, content_started,
               in_footer, skip_navigation_section, kept, prev_line, c_result,
               kpc>>

vars == <<crawlVars, patternVars, matchVars, discVars, wsVars, cleanVars, orchVars, cliVars, twinVars, selVars, againVars>>

\* what the steps of each component leave alone
nonCrawl == <<patternVars, matchVars, discVars, wsVars, cleanVars, orchVars, cliVars, twinVars, selVars, againVars>>
nonPattern == <<crawlVars, matchVars, discVars, wsVars, cleanVars, orchVars, cliVars, twinVars, selVars, againVars>>
nonMatch == <<crawlVars, patternVars, discVars, wsVars, cleanVars, orchVars, cliVars, twinVars, selVars, againVars>>
nonDisc == <<crawlVars, patternVars, matchVars, wsVars, cleanVars, orchVars, cliVars, selVars, againVars>>
nonWs == <<crawlVars, patternVars, matchVars, discVars, cleanVars, orchVars, cliVars, twinVars, selVars, againVars>>
nonClean == <<crawlVars, patternVars, matchVars, discVars, wsVars, orchVars, cliVars, twinVars, selVars, againVars>>

nonOrch == <<crawlVars, patternVars, matchVars, discVars, wsVars, cleanVars, cliVars, twinVars, selVars, againVars>>

nonCli == <<crawlVars, patternVars, matchVars, discVars, wsVars, cleanVars, orchVars, twinVars, selVars, againVars>>

nonTwin == <<crawlVars, patternVars, matchVars, discVars, wsVars, cleanVars, orchVars, cliVars, selVars, againVars>>

nonSel == <<crawlVars, patternVars, matchVars, discVars, wsVars, cleanVars, orchVars, cliVars, twinVars, againVars>>

nonAgain == <<crawlVars, patternVars, matchVars, discVars, wsVars, cleanVars, orchVars, cliVars, twinVars, selVars>>

None == "None"

\* ------------------------------------------------------------------ bounds
MaxUrls == 3
MaxLimit == 2
MaxPatLen == 3
MaxUrlLen == 3
MaxPatterns == 2
MaxDepth == 2
MaxPages == 2
MaxTextLen == 6
MaxLines == 3
MaxSentences == 3
MaxFound == 11
MaxSeeds == 2
MaxLinks == 2
MaxNodes == 3
MaxRules == 2

\* ------------------------------------------------------------------ helpers
RECURSIVE CountIf(_, _)
\* len([r for r in seq if r.success = flag])
CountIf(seq, flag) ==
    IF seq = <<>> THEN 0
    ELSE (IF Head(seq).success = flag THEN 1 ELSE 0) + CountIf(Tail(seq), flag)

\* ---------------------------------------------------------------- strings
\* the sequences over S of length at most n
SeqsUpTo(S, n) == UNION {[1..k -> S] : k \in 0..n}

RECURSIVE ReplaceAll(_, _, _)
\* str.replace(old, new): every non-overlapping occurrence, left to right
ReplaceAll(s, old, new) ==
    IF Len(s) < Len(old) THEN s
    ELSE IF SubSeq(s, 1, Len(old)) = old
         THEN new \o ReplaceAll(SubSeq(s, Len(old) + 1, Len(s)), old, new)
         ELSE <<Head(s)>> \o ReplaceAll(Tail(s), old, new)

\* the placeholder '<<<DOUBLESTAR>>>'
DOUBLESTAR ==
    <<"<", "<", "<", "D", "O", "U", "B", "L", "E", "S", "T", "A", "R", ">", ">", ">">>

\* ------------------------------------- URLPatternHandler (src/crawler.py 80-130)
\* the ten pattern.replace(c, '\' + c) calls, in the order of the source
EscapeSpecials(pattern) ==
    LET p1 == ReplaceAll(pattern, <<".">>, <<"\\", ".">>)
        p2 == ReplaceAll(p1, <<"+">>, <<"\\", "+">>)
        p3 == ReplaceAll(p2, <<"^">>, <<"\\", "^">>)
        p4 == ReplaceAll(p3, <<"$">>, <<"\\", "$">>)
        p5 == ReplaceAll(p4, <<"(">>, <<"\\", "(">>)
        p6 == ReplaceAll(p5, <<")">>, <<"\\", ")">>)
        p7 == ReplaceAll(p6, <<"[">>, <<"\\", "[">>)
        p8 == ReplaceAll(p7, <<"]">>, <<"\\", "]">>)
        p9 == ReplaceAll(p8, <<"{">>, <<"\\", "{">>)
    IN  ReplaceAll(p9, <<"}">>, <<"\\", "}">>)

\* the four replace calls that turn the wildcards into regex syntax
ConvertWildcards(pattern) ==
    LET p1 == ReplaceAll(pattern, <<"*", "*">>, DOUBLESTAR)
        p2 == ReplaceAll(p1, <<"*">>, <<"[", "^", "/", "]", "*">>)
        p3 == ReplaceAll(p2, DOUBLESTAR, <<".", "*">>)
    IN  ReplaceAll(p3, <<"?">>, <<".">>)

\* convert_wildcard_to_regex: the text of the regular expression
convert_wildcard_to_regex(pattern) ==
    <<"^">> \o ConvertWildcards(EscapeSpecials(pattern)) \o <<"$">>

\* the character a backslash escape of the regex stands for: \a, \t and \n are
\* control characters, a punctuation character stands for itself (escapes of
\* other letters are not drawn by this model)
EscapedChar(c) ==
    CASE c = "a" -> "BEL"
      [] c = "t" -> "TAB"
      [] c = "n" -> "\n"
      [] OTHER -> c

\* the regex item at the head of r (an atom and its '*', if any) and how many
\* characters it takes, as Python's re parses it
HeadItem(r) ==
    LET atom ==
            IF r[1] = "\\" /\ Len(r) >= 2
            THEN [k |-> "lit", c |-> EscapedChar(r[2]), n |-> 2]
            ELSE IF Len(r) >= 4 /\ SubSeq(r, 1, 4) = <<"[", "^", "/", "]">>
            THEN [k |-> "notslash", c |-> "/", n |-> 4]
            ELSE IF r[1] = "." THEN [k |-> "any", c |-> ".", n |-> 1]
            ELSE IF r[1] = "^" THEN [k |-> "bol", c |-> "^", n |-> 1]
            ELSE IF r[1] = "$" THEN [k |-> "eol", c |-> "$", n |-> 1]
            ELSE IF r[1] = "|" THEN [k |-> "alt", c |-> "|", n |-> 1]
            ELSE [k |-> "lit", c |-> r[1], n |-> 1]
        star == Len(r) > atom.n /\ r[atom.n + 1] = "*"
    IN  [k |-> atom.k, c |-> atom.c, star |-> star,
         n |-> atom.n + (IF star THEN 1 ELSE 0)]

RECURSIVE ParseRegex(_)
\* re.compile: the regex text as a sequence of items
ParseRegex(r) ==
    IF r = <<>> THEN <<>>
    ELSE LET it == HeadItem(r)
         IN  <<[k |-> it.k, c |-> it.c, star |-> it.star]>>
                 \o ParseRegex(SubSeq(r, it.n + 1, Len(r)))

\* whether one character is matched by an atom
AtomMatches(item, ch) ==
    CASE item.k = "lit" -> ch = item.c
      [] item.k = "any" -> ch # "\n"
      [] item.k = "notslash" -> ch # "/"
      [] OTHER -> FALSE

RECURSIVE MatchHere(_, _, _, _)
\* whether the items from index k on (up to the end of their alternative)
\* match a prefix of u[pos..]
MatchHere(items, k, u, pos) ==
    IF k > Len(items) \/ items[k].k = "alt" THEN TRUE
    ELSE IF items[k].k = "bol" THEN pos = 1 /\ MatchHere(items, k + 1, u, pos)
    ELSE IF items[k].k = "eol"
         THEN /\ \/ pos = Len(u) + 1
                 \/ pos = Len(u) /\ u[pos] = "\n"
              /\ MatchHere(items, k + 1, u, pos)
    ELSE IF items[k].star
         THEN \E n \in 0..(Len(u) + 1 - pos) :
                  /\ \A j \in pos..(pos + n - 1) : AtomMatches(items[k], u[j])
                  /\ MatchHere(items, k + 1, u, pos + n)
    ELSE /\ pos <= Len(u)
         /\ AtomMatches(items[k], u[pos])
         /\ MatchHere(items, k + 1, u, pos + 1)

\* re.match(regex, url) is not None: some alternative of the regex matches at
\* the start of url
re_match(regex, url) ==
    LET items == ParseRegex(regex)
        starts == {1} \cup {k + 1 : k \in {j \in 1..Len(items) : items[j].k = "alt"}}
    IN  \E k \in starts : MatchHere(items, k, url, 1)

\* the test both loops of match_url_pattern make for one pattern
PatternMatches(pattern, url) == re_match(convert_wildcard_to_regex(pattern), url)

RECURSIVE AnyMatches(_, _)
\* for pattern in patterns: if re.match(regex, url): return ...
AnyMatches(patterns, url) ==
    IF patterns = <<>> THEN FALSE
    ELSE IF PatternMatches(Head(patterns), url) THEN TRUE
    ELSE AnyMatches(Tail(patterns), url)

\* an optional pattern list: None, or a list of patterns
NoneList == [some |-> FALSE, v |-> <<>>]
SomeList(l) == [some |-> TRUE, v |-> l]

\* "if exclude_patterns:" / "if not patterns:" - None and the empty list are falsy
Falsy(list) == ~list.some \/ list.v = <<>>

\* match_url_pattern with the inclusions checked before the exclusions
match_url_pattern_Mutant(url, patterns, exclude_patterns) ==
    IF Falsy(patterns) THEN TRUE
    ELSE IF AnyMatches(patterns.v, url) THEN TRUE
    ELSE IF ~Falsy(exclude_patterns) /\ AnyMatches(exclude_patterns.v, url) THEN FALSE
    ELSE FALSE

\* match_url_pattern(url, patterns, exclude_patterns)
match_url_pattern(url, patterns, exclude_patterns) ==
    IF ~Falsy(exclude_patterns) /\ AnyMatches(exclude_patterns.v, url) THEN FALSE
    ELSE IF Falsy(patterns) THEN TRUE
    ELSE IF AnyMatches(patterns.v, url) THEN TRUE
    ELSE FALSE

\* --------------------------------------------- text (Python str as a string)
\* s[i-1:j]: the characters i to j, as many of them as there are
Slice(s, i, j) ==
    SubSeq(s, IF i < 1 THEN 1 ELSE i, IF j > Len(s) THEN Len(s) ELSE j)

\* s[i-1:i]: the i-th character, "" where there is none
Chr(s, i) == Slice(s, i, i)

\* the characters str.strip and str.rstrip remove
Whitespace == {" ", "\t", "\n", "\r"}

\* the positions of s that hold a character outside Whitespace
Inked(s) == {i \in 1..Len(s) : Chr(s, i) \notin Whitespace}

SetMin(S) == CHOOSE i \in S : \A j \in S : i <= j

SetMax(S) == CHOOSE i \in S : \A j \in S : i >= j

\* s.rstrip()
rstrip(s) == IF Inked(s) = {} THEN "" ELSE SubSeq(s, 1, SetMax(Inked(s)))

\* s.strip()
strip(s) ==
    IF Inked(s) = {} THEN "" ELSE SubSeq(s, SetMin(Inked(s)), SetMax(Inked(s)))

\* ------------------------------------------------- the components at rest
\* no batch crawl is running
CrawlIdle ==
    /\ urls = 0
    /\ page = <<>>
    /\ concurrent_limit = 1
    /\ delay_between_requests = 0
    /\ semaphore = 0
    /\ task = <<>>
    /\ fetched = <<>>
    /\ results = <<>>
    /\ failed_urls = <<>>
    /\ dir_exists = FALSE
    /\ written = {}
    /\ summary = <<>>
    /\ summary_file = 0
    /\ cpc = "idle"

\* no pattern is being converted
PatternIdle ==
    /\ p_pattern = <<>>
    /\ p_url = <<>>
    /\ p_regex = <<>>
    /\ p_matched = FALSE
    /\ ppc = "idle"

\* match_url_pattern is not being called
MatchIdle ==
    /\ m_url = <<>>
    /\ m_patterns = NoneList
    /\ m_exclude = NoneList
    /\ m_result = FALSE
    /\ mpc = "idle"

\* discover_urls is not running
DiscIdle ==
    /\ start_url = <<>>
    /\ d_patterns = NoneList
    /\ d_exclude = NoneList
    /\ max_depth = 0
    /\ max_pages = 0
    /\ include_external = FALSE
    /\ d_delay = 0
    /\ verbose = TRUE
    /\ limit_notice = FALSE
    /\ to_visit = <<>>
    /\ visited = {}
    /\ discovered = {}
    /\ depth_map = <<>>
    /\ url_relationships = <<>>
    /\ current_url = <<>>
    /\ fetch_log = <<>>
    /\ fetch_failed = {}
    /\ d_return = <<>>
    /\ dpc = "idle"

\* _clean_whitespace has not been called
WsIdle ==
    /\ w_text = ""
    /\ w_once = ""
    /\ w_twice = ""
    /\ wpc = "idle"

\* a ContentCleaner on which clean_markdown_content has not been called
CleanIdle ==
    /\ markdown = ""
    /\ title = ""
    /\ lines = <<>>
    /\ line_no = 0
    /\ cleaned_lines = <<>>
    /\ content_started = FALSE
    /\ in_footer = FALSE
    /\ skip_navigation_section = TRUE
    /\ kept = {}
    /\ prev_line = <<>>
    /\ c_result = ""
    /\ kpc = "idle"

\* none of the crawl functions has been called
OrchIdle ==
    /\ entry = None
    /\ dry_run = FALSE
    /\ deep_crawl = FALSE
    /\ o_urls = <<>>
    /\ next_seed = 1
    /\ discovered_urls = <<>>
    /\ all_discovered = {}
    /\ crawl_calls = <<>>
    /\ files = {}
    /\ report = <<>>
    /\ opc = "idle"

\* no InteractiveCLI is running
CliIdle ==
    /\ config_dry_run = FALSE
    /\ interrupted = FALSE
    /\ choice = "0"
    /\ cli_urls = <<>>
    /\ cli_seed = 1
    /\ cli_found = {}
    /\ clipc = "idle"

\* no comparison of two discovery runs is going on
TwinIdle ==
    /\ site = <<>>
    /\ link_no = 0
    /\ run = 0
    /\ first_run = <<>>

\* no selector extraction is going on
SelIdle ==
    /\ s_method = "none"
    /\ s_selectors = <<>>
    /\ s_exclude = <<>>
    /\ extracted_elements = <<>>
    /\ s_pos = 0
    /\ s_result = <<>>
    /\ spc = "idle"

\* no cleaner is being used again
AgainIdle == passes = <<>>

\* ------------------------------------------------- ContentCrawler.crawl_urls
Tasks == 1..urls

\* len(markdown_content.strip()) < 100
MinContentLength == 100

\* a cleaned body above the threshold
LongBody == "Substantial paragraph text that goes on for a while. "
                \o "Substantial paragraph text that goes on for a while. "
                \o "And a closing sentence."

\* what clean_markdown_content returns for the page
Bodies == {"", "   ", "Short page.", LongBody}

\* result.cleaned_html
CleanedHtmls == {None, "", "<p>Short page.</p>"}

\* result.error_message, also str(e) of the exception raised instead
ErrorMessages == {None, "", "Timeout"}

Pages ==
    [markdown : Bodies, cleaned_html : CleanedHtmls,
     error_message : ErrorMessages]

\* the page of a batch whose content is not looked at
DefaultPage ==
    [markdown |-> "Short page.", cleaned_html |-> "<p>Short page.</p>",
     error_message |-> "Timeout"]

FallbackNote == "[Note: Minimal markdown extracted, showing cleaned content]\n\n"
NoContentPlaceholder ==
    "[No substantial content could be extracted from this page]"

\* the content quality check of crawl_single_url: a short body is replaced
\* by the cleaned HTML when there is one, and by the placeholder when the
\* body is the empty string
markdown_content(p) ==
    IF Len(strip(p.markdown)) < MinContentLength
    THEN IF p.cleaned_html \notin {None, ""}
         THEN FallbackNote \o p.cleaned_html
         ELSE IF p.markdown = "" THEN NoContentPlaceholder ELSE p.markdown
    ELSE p.markdown

\* error_msg of the non-success branch; the f-string formats None as "None"
CrawlFailedMsg(u) == "Crawl failed: " \o page[u].error_message

\* error_msg of the except branch
ExceptionMsg(u) == "Exception: " \o page[u].error_message

\* a failure record that carries no error detail
FailedResultMutant(u) ==
    [url |-> u, success |-> FALSE, error |-> None, markdown |-> None]
\* the result record crawl_single_url returns when result.success is false
FailedResult(u) ==
    [url |-> u, success |-> FALSE, error |-> CrawlFailedMsg(u),
     markdown |-> None]

\* the result record crawl_single_url returns from its except branch
ExceptionResult(u) ==
    [url |-> u, success |-> FALSE, error |-> ExceptionMsg(u),
     markdown |-> None]

\* content_data, the result record of a page that was fetched and persisted;
\* it has no 'error' key
ContentData(u) ==
    [url |-> u, success |-> TRUE, error |-> None,
     markdown |-> markdown_content(page[u])]

\* an acquire that never waits for a free slot
CanAcquireMutant == TRUE
\* asyncio.Semaphore(concurrent_limit): acquire goes on only while the value
\* is positive
CanAcquire == semaphore > 0

\* a failure branch that forgets to record the URL
RecordFailureMutant(u, msg) == failed_urls
\* self.failed_urls.append((url, error_msg))
RecordFailure(u, msg) == Append(failed_urls, <<u, msg>>)

\* an end of crawl_with_semaphore that releases the slot without the sleep
AfterAppendMutant(i) ==
    /\ task' = [task EXCEPT ![i] = "done"]
    /\ semaphore' = semaphore + 1
\* the end of crawl_with_semaphore once the result is appended: the pacing
\* sleep when the delay is positive, else the slot is released at once
AfterAppend(i) ==
    IF delay_between_requests > 0
    THEN /\ task' = [task EXCEPT ![i] = "sleeping"]
         /\ UNCHANGED semaphore
    ELSE /\ task' = [task EXCEPT ![i] = "done"]
         /\ semaphore' = semaphore + 1

\* a crawler and a batch of URLs before crawl_urls is called
BatchInit(sizes, pages) ==
    /\ urls \in sizes
    /\ page \in [1..urls -> pages]
    /\ concurrent_limit \in 1..MaxLimit
    /\ delay_between_requests \in {0, 1}
    /\ semaphore = 0
    /\ task = [i \in 1..urls |-> "created"]
    /\ fetched = [i \in 1..urls |-> "none"]
    /\ results = <<>>
    /\ failed_urls = <<>>
    /\ dir_exists \in BOOLEAN
    /\ written = {}
    /\ summary = <<>>
    /\ summary_file = 0
    /\ cpc = "idle"

CrawlInit == BatchInit(1..MaxUrls, {DefaultPage})

\* one URL, every kind of page
PageInit == BatchInit({1}, Pages)

\* crawl_urls up to the gather: the lists are reset, the semaphore is made
\* and one task per URL is scheduled
CrawlUrlsStart ==
    /\ cpc = "idle"
    /\ results' = <<>>
    /\ failed_urls' = <<>>
    /\ semaphore' = concurrent_limit
    /\ task' = [i \in Tasks |-> "waiting"]
    /\ cpc' = "gather"
    /\ UNCHANGED nonCrawl
    /\ UNCHANGED <<urls, page, concurrent_limit, delay_between_requests, fetched,
                   dir_exists, written, summary, summary_file>>

\* async with semaphore: the task takes a slot and starts crawl_single_url
Acquire(i) ==
    /\ cpc = "gather"
    /\ task[i] = "waiting"
    /\ CanAcquire
    /\ semaphore' = semaphore - 1
    /\ task' = [task EXCEPT ![i] = "fetching"]
    /\ UNCHANGED nonCrawl
    /\ UNCHANGED <<urls, page, concurrent_limit, delay_between_requests, fetched,
                   results, failed_urls, dir_exists, written, summary,
                   summary_file, cpc>>

\* crawler.arun returned result.success: the content is cleaned, the output
\* path is computed (get_output_path creates the directory) and the write starts
FetchSuccess(i) ==
    /\ task[i] = "fetching"
    /\ fetched' = [fetched EXCEPT ![i] = "ok"]
    /\ dir_exists' = TRUE
    /\ task' = [task EXCEPT ![i] = "saving"]
    /\ UNCHANGED nonCrawl
    /\ UNCHANGED <<urls, page, concurrent_limit, delay_between_requests, semaphore,
                   results, failed_urls, written, summary, summary_file, cpc>>

\* crawler.arun returned a result that reports non-success
FetchNonSuccess(i) ==
    /\ task[i] = "fetching"
    /\ fetched' = [fetched EXCEPT ![i] = "nonsuccess"]
    /\ failed_urls' = RecordFailure(i, CrawlFailedMsg(i))
    /\ results' = Append(results, FailedResult(i))
    /\ AfterAppend(i)
    /\ UNCHANGED nonCrawl
    /\ UNCHANGED <<urls, page, concurrent_limit, delay_between_requests, dir_exists,
                   written, summary, summary_file, cpc>>

\* crawler.arun raised: the except branch of crawl_single_url
FetchRaises(i) ==
    /\ task[i] = "fetching"
    /\ fetched' = [fetched EXCEPT ![i] = "raise"]
    /\ failed_urls' = RecordFailure(i, ExceptionMsg(i))
    /\ results' = Append(results, ExceptionResult(i))
    /\ AfterAppend(i)
    /\ UNCHANGED nonCrawl
    /\ UNCHANGED <<urls, page, concurrent_limit, delay_between_requests, dir_exists,
                   written, summary, summary_file, cpc>>

\* the page artifact is written, crawl_single_url returns content_data and
\* crawl_with_semaphore appends it
Save(i) ==
    /\ task[i] = "saving"
    /\ written' = written \cup {i}
    /\ results' = Append(results, ContentData(i))
    /\ AfterAppend(i)
    /\ UNCHANGED nonCrawl
    /\ UNCHANGED <<urls, page, concurrent_limit, delay_between_requests, fetched,
                   failed_urls, dir_exists, summary, summary_file, cpc>>

\* the pacing sleep is over: the slot is released
Release(i) ==
    /\ task[i] = "sleeping"
    /\ task' = [task EXCEPT ![i] = "done"]
    /\ semaphore' = semaphore + 1
    /\ UNCHANGED nonCrawl
    /\ UNCHANGED <<urls, page, concurrent_limit, delay_between_requests, fetched,
                   results, failed_urls, dir_exists, written, summary,
                   summary_file, cpc>>

\* the summary dict built once gather has returned
BuildSummary ==
    [total_urls |-> urls,
     successful |-> CountIf(results, TRUE),
     failed |-> CountIf(results, FALSE),
     failed_urls |-> failed_urls]

\* gather returns when every task is done; the summary is prepared
Summarize ==
    /\ cpc = "gather"
    /\ \A i \in Tasks : task[i] = "done"
    /\ summary' = <<BuildSummary>>
    /\ cpc' = "save_summary"
    /\ UNCHANGED nonCrawl
    /\ UNCHANGED <<urls, page, concurrent_limit, delay_between_requests, semaphore,
                   task, fetched, results, failed_urls, dir_exists, written,
                   summary_file>>

\* aiofiles.open(output_dir / "crawl_summary.json", 'w') and the write
SaveSummary ==
    /\ cpc = "save_summary"
    /\ dir_exists
    /\ summary_file' = summary_file + 1
    /\ cpc' = "returned"
    /\ UNCHANGED nonCrawl
    /\ UNCHANGED <<urls, page, concurrent_limit, delay_between_requests, semaphore,
                   task, fetched, results, failed_urls, dir_exists, written,
                   summary>>

\* the open fails with FileNotFoundError when the directory does not exist
SaveSummaryRaises ==
    /\ cpc = "save_summary"
    /\ ~dir_exists
    /\ cpc' = "raised"
    /\ UNCHANGED nonCrawl
    /\ UNCHANGED <<urls, page, concurrent_limit, delay_between_requests, semaphore,
                   task, fetched, results, failed_urls, dir_exists, written,
                   summary, summary_file>>

NextCrawl ==
    \/ CrawlUrlsStart
    \/ \E i \in Tasks : Acquire(i)
    \/ \E i \in Tasks : FetchSuccess(i)
    \/ \E i \in Tasks : FetchNonSuccess(i)
    \/ \E i \in Tasks : FetchRaises(i)
    \/ \E i \in Tasks : Save(i)
    \/ \E i \in Tasks : Release(i)
    \/ Summarize
    \/ SaveSummary
    \/ SaveSummaryRaises

InitCrawl ==
    CrawlInit /\ PatternIdle /\ MatchIdle /\ DiscIdle /\ WsIdle /\ CleanIdle /\ OrchIdle /\ CliIdle /\ TwinIdle /\ SelIdle /\ AgainIdle

SpecCrawl == InitCrawl /\ [][NextCrawl]_vars

InitPage ==
    PageInit /\ PatternIdle /\ MatchIdle /\ DiscIdle /\ WsIdle /\ CleanIdle /\ OrchIdle /\ CliIdle /\ TwinIdle /\ SelIdle /\ AgainIdle

SpecPage == InitPage /\ [][NextCrawl]_vars

\* --------------------------------- one pattern, converted and tried on one URL
\* the characters patterns and URLs are drawn from
PatChars == {"a", "/", ".", "|", "\\", "*", "?"}
UrlChars == {"a", "/", ".", "|", "\\"}

\* "*/blog/**", "https://x.com/a/blog/2024/post" and "https://x.com/blog"
BlogPattern == <<"*", "/", "b", "l", "o", "g", "/", "*", "*">>
BlogDeepUrl ==
    <<"h", "t", "t", "p", "s", ":", "/", "/", "x", ".", "c", "o", "m", "/", "a",
      "/", "b", "l", "o", "g", "/", "2", "0", "2", "4", "/", "p", "o", "s", "t">>
BlogShortUrl ==
    <<"h", "t", "t", "p", "s", ":", "/", "/", "x", ".", "c", "o", "m", "/",
      "b", "l", "o", "g">>

\* the example pattern "*/blog/*" and the example URL
\* "https://example.com/blog/post1" of InteractiveCLI.get_url_patterns
ExamplePattern == <<"*", "/", "b", "l", "o", "g", "/", "*">>
ExampleUrl ==
    <<"h", "t", "t", "p", "s", ":", "/", "/", "e", "x", "a", "m", "p", "l", "e",
      ".", "c", "o", "m", "/", "b", "l", "o", "g", "/", "p", "o", "s", "t", "1">>

PatternInit ==
    /\ \/ /\ p_pattern \in SeqsUpTo(PatChars, MaxPatLen)
          /\ p_url \in SeqsUpTo(UrlChars, MaxUrlLen)
       \/ /\ p_pattern = BlogPattern
          /\ p_url \in {BlogDeepUrl, BlogShortUrl}
       \/ /\ p_pattern = ExamplePattern
          /\ p_url = ExampleUrl
    /\ p_regex = <<>>
    /\ p_matched = FALSE
    /\ ppc = "start"

\* regex = URLPatternHandler.convert_wildcard_to_regex(pattern)
Convert ==
    /\ ppc = "start"
    /\ p_regex' = convert_wildcard_to_regex(p_pattern)
    /\ ppc' = "converted"
    /\ UNCHANGED <<p_pattern, p_url, p_matched>>
    /\ UNCHANGED nonPattern

\* if re.match(regex, url)
Match ==
    /\ ppc = "converted"
    /\ p_matched' = re_match(p_regex, p_url)
    /\ ppc' = "matched"
    /\ UNCHANGED <<p_pattern, p_url, p_regex>>
    /\ UNCHANGED nonPattern

NextPattern ==
    \/ Convert
    \/ Match

InitPattern ==
    CrawlIdle /\ PatternInit /\ MatchIdle /\ DiscIdle /\ WsIdle /\ CleanIdle /\ OrchIdle /\ CliIdle /\ TwinIdle /\ SelIdle /\ AgainIdle

SpecPattern == InitPattern /\ [][NextPattern]_vars

\* ------------------------------------------------ calls of match_url_pattern
\* URLs: the token "x" or "y" stands for the scheme and host
MatchUrls ==
    {<<"x", "/", "a">>, <<"x", "/", "a", "/", "b">>, <<"x", "/", "b">>,
     <<"y", "/", "a">>}

\* "**", "x/*", "**/a", "x/a/*", "y/**"
MatchPatterns ==
    {<<"*", "*">>, <<"x", "/", "*">>, <<"*", "*", "/", "a">>,
     <<"x", "/", "a", "/", "*">>, <<"y", "/", "*", "*">>}

\* None and the lists of at most MaxPatterns patterns
OptLists == {NoneList} \cup {SomeList(l) : l \in SeqsUpTo(MatchPatterns, MaxPatterns)}

MatchInit ==
    /\ m_url \in MatchUrls
    /\ m_patterns \in OptLists
    /\ m_exclude \in OptLists
    /\ m_result = FALSE
    /\ mpc = "start"

\* a call URLPatternHandler.match_url_pattern(url, patterns, exclude_patterns)
CallMatchUrlPattern ==
    /\ mpc = "start"
    /\ m_result' = match_url_pattern(m_url, m_patterns, m_exclude)
    /\ mpc' = "returned"
    /\ UNCHANGED <<m_url, m_patterns, m_exclude>>
    /\ UNCHANGED nonMatch

NextMatch == CallMatchUrlPattern

InitMatch ==
    CrawlIdle /\ PatternIdle /\ MatchInit /\ DiscIdle /\ WsIdle /\ CleanIdle /\ OrchIdle /\ CliIdle /\ TwinIdle /\ SelIdle /\ AgainIdle

SpecMatch == InitMatch /\ [][NextMatch]_vars

\* ------------------------------------ URLDiscovery (src/crawler.py 133-250)
\* the tokens that stand for a scheme and host ("https://x.com", "https://y.com")
Origins == {"x", "y"}

\* the index of the first character of s that is in set cs, Len(s)+1 if none
FirstIn(s, cs) ==
    LET hits == {j \in 1..Len(s) : s[j] \in cs}
    IN  IF hits = {} THEN Len(s) + 1
        ELSE CHOOSE j \in hits : \A k \in hits : j <= k

\* urlparse(url): scheme and host (one token), path, query and fragment
urlparse(url) ==
    LET hasOrigin == url # <<>> /\ url[1] \in Origins
        rest == IF hasOrigin THEN Tail(url) ELSE url
        hashAt == FirstIn(rest, {"#"})
        beforeHash == SubSeq(rest, 1, hashAt - 1)
        queryAt == FirstIn(beforeHash, {"?"})
    IN  [origin |-> IF hasOrigin THEN <<url[1]>> ELSE <<>>,
         path |-> SubSeq(beforeHash, 1, queryAt - 1),
         query |-> SubSeq(beforeHash, queryAt + 1, Len(beforeHash)),
         fragment |-> SubSeq(rest, hashAt + 1, Len(rest))]

\* urljoin(base, url) for the hrefs of this model: an absolute URL is itself,
\* a href that starts with '/' replaces the path of the base, and a href that
\* is only a fragment replaces the fragment of the base
urljoin(base, url) ==
    IF url = <<>> THEN base
    ELSE IF url[1] \in Origins THEN url
    ELSE IF url[1] = "/" THEN urlparse(base).origin \o url
    ELSE IF url[1] = "#" THEN SubSeq(base, 1, FirstIn(base, {"#"}) - 1) \o url
    ELSE base

\* extract_domain(url)
extract_domain(url) == urlparse(url).origin

\* is_same_domain(url1, url2)
is_same_domain(url1, url2) == extract_domain(url1) = extract_domain(url2)

\* normalize_url(url, base_url): the fragment is dropped, and a trailing
\* slash unless the path is the root
normalize_url(url, base_url) ==
    LET joined == IF base_url # <<>> THEN urljoin(base_url, url) ELSE url
        parsed == urlparse(joined)
        rebuilt == parsed.origin \o parsed.path
                       \o (IF parsed.query # <<>> THEN <<"?">> \o parsed.query ELSE <<>>)
    IN  IF rebuilt # <<>> /\ rebuilt[Len(rebuilt)] = "/" /\ Len(parsed.path) > 1
        THEN SubSeq(rebuilt, 1, Len(rebuilt) - 1)
        ELSE rebuilt

\* the elements of a list
Range(seq) == {seq[j] : j \in 1..Len(seq)}

\* a dict with one more key, or a key's value replaced
DictSet(dict, key, value) ==
    [k \in (DOMAIN dict) \cup {key} |-> IF k = key THEN value ELSE dict[k]]

\* a loop that goes on after the budget is reached
LoopConditionMutant == to_visit # <<>> /\ Cardinality(discovered) <= max_pages
\* while to_visit and len(discovered) < self.config.max_pages
LoopCondition == to_visit # <<>> /\ Cardinality(discovered) < max_pages

\* links followed from a page at the maximum depth too
MayFollowLinksMutant(current_depth) == current_depth <= max_depth
\* "and current_depth < self.config.max_depth"
MayFollowLinks(current_depth) == current_depth < max_depth

\* an enqueue test that forgets the visited set
NotSeenMutant(normalized, queue) == normalized \notin Range(queue)
\* "if normalized not in visited and normalized not in to_visit"
NotSeen(normalized, queue) ==
    normalized \notin visited /\ normalized \notin Range(queue)

\* whether the for loop over the links skips this link: an empty href, a
\* foreign domain when external links are not followed, or a URL seen before
SkipLink(link) ==
    LET normalized == normalize_url(link, current_url)
    IN  \/ link = <<>>
        \/ ~include_external /\ ~is_same_domain(normalized, start_url)
        \/ ~NotSeen(normalized, to_visit)

\* the order of Python's str comparison on the characters of URLs
CharRank(c) ==
    CASE c = "#" -> 1
      [] c = "/" -> 2
      [] c = "?" -> 3
      [] c = "a" -> 4
      [] c = "b" -> 5
      [] c = "f" -> 6
      [] c = "x" -> 7
      [] c = "y" -> 8
      [] OTHER -> 9

RECURSIVE StrLess(_, _)
\* s < t for str
StrLess(s, t) ==
    IF t = <<>> THEN FALSE
    ELSE IF s = <<>> THEN TRUE
    ELSE IF s[1] = t[1] THEN StrLess(Tail(s), Tail(t))
    ELSE CharRank(s[1]) < CharRank(t[1])

RECURSIVE Sorted(_)
\* sorted(list(set))
Sorted(set) ==
    IF set = {} THEN <<>>
    ELSE LET least == CHOOSE u \in set : \A v \in set \ {u} : StrLess(u, v)
         IN  <<least>> \o Sorted(set \ {least})

\* a return that lists the admitted URLs in descending order
ReturnedListMutant(set) ==
    [i \in 1..Cardinality(set) |-> Sorted(set)[Cardinality(set) + 1 - i]]

\* return sorted(list(discovered))
ReturnedList(set) == Sorted(set)

\* the seeds, "https://x.com/" and "https://x.com/a/"
Seeds == {<<"x", "/">>, <<"x", "/", "a", "/">>}

\* the hrefs a page may hold: "https://x.com/a", "https://x.com/a/",
\* "https://x.com/b#f", "https://y.com/a", "/" and the empty href
Hrefs ==
    {<<"x", "/", "a">>, <<"x", "/", "a", "/">>, <<"x", "/", "b", "#", "f">>,
     <<"y", "/", "a">>, <<"/">>, <<>>}

\* the include lists: None and ["**/a"]; the exclude lists: None and ["y/**"]
IncludeLists == {NoneList, SomeList(<<(<<"*", "*", "/", "a">>)>>)}
ExcludeLists == {NoneList, SomeList(<<(<<"y", "/", "*", "*">>)>>)}

DiscSetup(verbosity) ==
    /\ verbose \in verbosity
    /\ limit_notice = FALSE
    /\ start_url \in Seeds
    /\ d_patterns \in IncludeLists
    /\ d_exclude \in ExcludeLists
    /\ max_depth \in 0..MaxDepth
    /\ max_pages \in 0..MaxPages
    /\ include_external \in BOOLEAN
    /\ d_delay \in {0, 1}
    /\ to_visit = <<>>
    /\ visited = {}
    /\ discovered = {}
    /\ depth_map = <<>>
    /\ url_relationships = <<>>
    /\ current_url = <<>>
    /\ fetch_log = <<>>
    /\ fetch_failed = {}
    /\ d_return = <<>>
    /\ dpc = "idle"


\* CrawlConfig() leaves verbose at its default (src/crawler.py 39)
DiscInit == DiscSetup({TRUE})

\* discover_urls is called: the locals are set up
DiscoverStart ==
    /\ dpc = "idle"
    /\ discovered' = {}
    /\ to_visit' = <<start_url>>
    /\ visited' = {}
    /\ depth_map' = [u \in {start_url} |-> 0]
    /\ dpc' = "loop"
    /\ limit_notice' = FALSE
    /\ UNCHANGED <<discConfig, url_relationships, current_url, fetch_log, fetch_failed, d_return>>
    /\ UNCHANGED nonDisc

\* one pass of the loop head: the head of the queue is popped; a URL that is
\* already visited or too deep is dropped, any other is marked visited and
\* crawler.arun is awaited
Dequeue ==
    /\ dpc = "loop"
    /\ LoopCondition
    /\ LET url == Head(to_visit)
           current_depth == IF url \in DOMAIN depth_map THEN depth_map[url] ELSE 0
       IN  /\ to_visit' = Tail(to_visit)
           /\ IF url \in visited \/ current_depth > max_depth
              THEN UNCHANGED <<visited, current_url, fetch_log, dpc>>
              ELSE /\ visited' = visited \cup {url}
                   /\ current_url' = url
                   /\ fetch_log' = Append(fetch_log, url)
                   /\ dpc' = "fetching"
    /\ UNCHANGED <<discConfig, limit_notice, discovered, depth_map, url_relationships,
                   fetch_failed, d_return>>
    /\ UNCHANGED nonDisc

\* the end of an iteration: the pacing sleep when the delay is positive
EndIteration == dpc' = IF d_delay > 0 THEN "sleeping" ELSE "loop"

\* crawler.arun returned result.success: the URL is admitted if it passes
\* the patterns; the for loop over the links starts when the result has
\* links and the page is not at the maximum depth
DiscoverFetchOk ==
    /\ dpc = "fetching"
    /\ UNCHANGED fetch_failed
    /\ discovered' = IF match_url_pattern(current_url, d_patterns, d_exclude)
                     THEN discovered \cup {current_url}
                     ELSE discovered
    /\ \E has_links \in BOOLEAN :
           IF has_links /\ MayFollowLinks(depth_map[current_url])
           THEN dpc' = "links" /\ UNCHANGED current_url
           ELSE current_url' = <<>> /\ EndIteration
    /\ UNCHANGED <<discConfig, limit_notice, to_visit, visited, depth_map, url_relationships,
                   fetch_log, d_return>>
    /\ UNCHANGED nonDisc

\* one pass of the for loop over result.links.get('internal', []), for one
\* more link of the page
ExtractLink(link) ==
    /\ dpc = "links"
    /\ LET normalized == normalize_url(link, current_url)
           current_depth == depth_map[current_url]
           children == IF current_url \in DOMAIN url_relationships
                       THEN url_relationships[current_url] ELSE <<>>
       IN  IF SkipLink(link)
           THEN UNCHANGED <<to_visit, depth_map, url_relationships>>
           ELSE /\ to_visit' = Append(to_visit, normalized)
                /\ depth_map' = DictSet(depth_map, normalized, current_depth + 1)
                /\ url_relationships' =
                       DictSet(url_relationships, current_url,
                               Append(children, normalized))
    /\ UNCHANGED <<discConfig, limit_notice, visited, discovered, current_url, fetch_log,
                   fetch_failed, d_return, dpc>>
    /\ UNCHANGED nonDisc

\* the page has no more links: the for loop is over
EndLinks ==
    /\ dpc = "links"
    /\ current_url' = <<>>
    /\ EndIteration
    /\ UNCHANGED <<discConfig, limit_notice, to_visit, visited, discovered, depth_map,
                   url_relationships, fetch_log, fetch_failed, d_return>>
    /\ UNCHANGED nonDisc

\* a failed fetch whose URL is admitted all the same
DiscoverFetchFailsMutant ==
    /\ dpc = "fetching"
    /\ fetch_failed' = fetch_failed \cup {current_url}
    /\ discovered' = discovered \cup {current_url}
    /\ current_url' = <<>>
    /\ EndIteration
    /\ UNCHANGED <<discConfig, limit_notice, to_visit, visited, depth_map,
                   url_relationships, fetch_log, d_return>>
    /\ UNCHANGED nonDisc
\* crawler.arun returned a result that reports non-success
DiscoverFetchFails ==
    /\ dpc = "fetching"
    /\ fetch_failed' = fetch_failed \cup {current_url}
    /\ current_url' = <<>>
    /\ EndIteration
    /\ UNCHANGED <<discConfig, limit_notice, to_visit, visited, discovered, depth_map,
                   url_relationships, fetch_log, d_return>>
    /\ UNCHANGED nonDisc

\* crawler.arun raised: the except branch logs the error
DiscoverFetchRaises ==
    /\ dpc = "fetching"
    /\ fetch_failed' = fetch_failed \cup {current_url}
    /\ current_url' = <<>>
    /\ EndIteration
    /\ UNCHANGED <<discConfig, limit_notice, to_visit, visited, discovered, depth_map,
                   url_relationships, fetch_log, d_return>>
    /\ UNCHANGED nonDisc

\* asyncio.sleep(delay_between_requests) is over
DiscoverWake ==
    /\ dpc = "sleeping"
    /\ dpc' = "loop"
    /\ UNCHANGED <<discConfig, limit_notice, to_visit, visited, discovered, depth_map,
                   url_relationships, current_url, fetch_log, fetch_failed, d_return>>
    /\ UNCHANGED nonDisc

\* the test after the loop: the loop stopped at the max_pages limit with
\* URLs left in the queue
LimitReached == to_visit # <<>> /\ Cardinality(discovered) >= max_pages

\* the loop is left: the max pages notice is printed when the limit was
\* reached and config.verbose is set, and the sorted list is returned
DiscoverReturn ==
    /\ dpc = "loop"
    /\ ~LoopCondition
    /\ limit_notice' = (LimitReached /\ verbose)
    /\ d_return' = ReturnedList(discovered)
    /\ dpc' = "done"
    /\ UNCHANGED <<discConfig, to_visit, visited, discovered, depth_map,
                   url_relationships, current_url, fetch_log, fetch_failed>>
    /\ UNCHANGED nonDisc

\* the steps of one discovery run, the collaborator answering as it likes
NextDiscovery ==
    \/ DiscoverStart /\ UNCHANGED twinVars
    \/ Dequeue /\ UNCHANGED twinVars
    \/ DiscoverFetchOk /\ UNCHANGED twinVars
    \/ \E link \in Hrefs : ExtractLink(link) /\ UNCHANGED twinVars
    \/ EndLinks /\ UNCHANGED twinVars
    \/ DiscoverFetchFails /\ UNCHANGED twinVars
    \/ DiscoverFetchRaises /\ UNCHANGED twinVars
    \/ DiscoverWake /\ UNCHANGED twinVars
    \/ DiscoverReturn /\ UNCHANGED twinVars

InitDiscovery ==
    CrawlIdle /\ PatternIdle /\ MatchIdle /\ DiscInit /\ WsIdle /\ CleanIdle /\ OrchIdle /\ CliIdle /\ TwinIdle /\ SelIdle /\ AgainIdle

SpecDiscovery == InitDiscovery /\ [][NextDiscovery]_vars

\* discovery under either setting of config.verbose, without include and
\* exclude patterns
VerbosityInit ==
    /\ DiscSetup(BOOLEAN)
    /\ d_patterns = NoneList
    /\ d_exclude = NoneList

InitVerbosity ==
    CrawlIdle /\ PatternIdle /\ MatchIdle /\ VerbosityInit /\ WsIdle /\ CleanIdle /\ OrchIdle /\ CliIdle /\ TwinIdle /\ SelIdle /\ AgainIdle

SpecVerbosity == InitVerbosity /\ [][NextDiscovery]_vars

\* s.startswith(pre)
startswith(s, pre) == Len(s) >= Len(pre) /\ SubSeq(s, 1, Len(pre)) = pre

\* the positions at which sub occurs in s
Occurrences(s, sub) ==
    {i \in 1..(Len(s) - Len(sub) + 1) : SubSeq(s, i, i + Len(sub) - 1) = sub}

\* sub in s
Contains(s, sub) == Occurrences(s, sub) # {}

RECURSIVE split(_, _)
\* s.split(sep) for a separator of one character
split(s, sep) ==
    IF Occurrences(s, sep) = {} THEN <<s>>
    ELSE LET i == SetMin(Occurrences(s, sep))
         IN  <<SubSeq(s, 1, i - 1)>> \o split(SubSeq(s, i + 1, Len(s)), sep)

RECURSIVE join(_, _)
\* sep.join(seq)
join(sep, seq) ==
    IF seq = <<>> THEN ""
    ELSE IF Len(seq) = 1 THEN seq[1]
    ELSE seq[1] \o sep \o join(sep, Tail(seq))

Uppers == "ABCDEFGHIJKLMNOPQRSTUVWXYZ"

Lowers == "abcdefghijklmnopqrstuvwxyz"

\* [A-Z]
UpperSet == {Chr(Uppers, i) : i \in 1..Len(Uppers)}

\* [a-z]
LowerSet == {Chr(Lowers, i) : i \in 1..Len(Lowers)}

IsUpper(c) == c \in UpperSet

IsLower(c) == c \in LowerSet

\* the lower-case letter of each capital letter
LowerOf == [c \in UpperSet |-> Chr(Lowers, SetMin(Occurrences(Uppers, c)))]

RECURSIVE lower(_)
\* s.lower()
lower(s) ==
    IF Len(s) = 0 THEN ""
    ELSE IF Len(s) = 1 THEN (IF IsUpper(s) THEN LowerOf[s] ELSE s)
    ELSE lower(SubSeq(s, 1, Len(s) \div 2))
             \o lower(SubSeq(s, Len(s) \div 2 + 1, Len(s)))

\* s.count(sub), for a sub that cannot overlap itself
count(s, sub) == Cardinality(Occurrences(s, sub))

RECURSIVE replace(_, _, _)
\* s.replace(old, new)
replace(s, old, new) ==
    IF Occurrences(s, old) = {} THEN s
    ELSE LET i == SetMin(Occurrences(s, old))
         IN  SubSeq(s, 1, i - 1) \o new
                 \o replace(SubSeq(s, i + Len(old), Len(s)), old, new)

\* the positions at which the words of s.split() start
WordStarts(s) == {i \in Inked(s) : i = 1 \/ (i - 1) \notin Inked(s)}

\* the word of s that starts at position i
WordAt(s, i) ==
    SubSeq(s, i, SetMin({j \in i..Len(s) : j = Len(s) \/ (j + 1) \notin Inked(s)}))

\* set(s.split())
Words(s) == {WordAt(s, i) : i \in WordStarts(s)}

\* the character that stands for the backtick, which a string of this module
\* cannot hold
Backtick == "~"

\* any(k in s for k in keys)
AnyIn(keys, s) == \E k \in keys : Contains(s, k)

\* how many characters from position i on lie outside the set stop
RunOutside(s, i, stop) ==
    IF \A j \in i..Len(s) : Chr(s, j) \notin stop THEN Len(s) - i + 1
    ELSE SetMin({j \in i..Len(s) : Chr(s, j) \in stop}) - i

\* how many characters from position i on lie in the set of characters among
RunInside(s, i, among) ==
    IF \A j \in i..Len(s) : Chr(s, j) \in among THEN Len(s) - i + 1
    ELSE SetMin({j \in i..Len(s) : Chr(s, j) \notin among}) - i

\* ---------------------- ContentCleaner (src/content_filters.py 12-342)
\* self.nav_indicators, in order
nav_indicators ==
    <<"search", "menu", "navigation", "navbar", "sidebar", "breadcrumb",
      "home", "contact", "about", "login", "sign in", "sign up", "register",
      "skip to content", "skip to main", "toggle menu", "close menu">>

\* self.footer_indicators
footer_indicators ==
    {"copyright", "©", "all rights reserved", "privacy policy",
     "terms of service", "terms of use", "cookie policy",
     "was this page helpful", "feedback", "x.com", "twitter.com",
     "linkedin.com", "facebook.com", "github.com", "on this page", "yesno",
     "rate this page", "improve this page", "last modified", "last updated",
     "edit this page"}

\* self.skip_patterns
skip_patterns ==
    {"copy page", "copy link", "share this", "print this page", "bookmark",
     "loading...", "please wait", "skip to content", "toggle navigation"}

\* the elements of a list
Elements(seq) == {seq[i] : i \in 1..Len(seq)}

_is_footer_line(line) == AnyIn(footer_indicators, lower(line))

_should_skip_line(line) == AnyIn(skip_patterns, lower(line))

\* nav_section_starts
nav_section_starts ==
    {"search", "navigation", "menu", "breadcrumb", "skip to",
     "table of contents", "getting started", "##### getting started",
     "##### build with", "##### deployment", "##### administration",
     "##### configuration", "##### reference"}

_is_navigation_section(line, all_lines, index) ==
    AnyIn(nav_section_starts, lower(line))

\* nav_terms
nav_terms == {"overview", "quickstart", "getting started", "reference", "home"}

_is_likely_navigation(line) ==
    \/ count(line, "[") > 3 /\ count(line, "](") > 3
    \/ AnyIn(nav_terms, lower(line)) /\ Len(strip(line)) < 100

_is_substantial_paragraph(line) ==
    LET stripped == strip(line)
    IN  /\ ~(Len(stripped) < 20)
        /\ ~(Cardinality(WordStarts(stripped)) < 4)
        /\ ~AnyIn(Elements(SubSeq(nav_indicators, 1, 5)), lower(stripped))

\* the characters matched by r'^#{2,6}\\s+' at the start of line, 0 if it does
\* not match: two to six '#', a backslash and one or more 's' (in the raw
\* string '\\s' is an escaped backslash followed by the letter s)
SectionPrefix(line) ==
    LET hashes == RunInside(line, 1, {"#"})
        esses == RunInside(line, hashes + 2, {"s"})
    IN  IF /\ hashes \in 2..6
           /\ Chr(line, hashes + 1) = "\\"
           /\ esses >= 1
        THEN hashes + 1 + esses
        ELSE 0

\* re.match(r'^#{2,6}\\s+\\w', line): the prefix, a backslash and the letter w
SectionHeadingRe(line) ==
    /\ SectionPrefix(line) > 0
    /\ Slice(line, SectionPrefix(line) + 1, SectionPrefix(line) + 2) = "\\w"

\* re.match(r'^\\d+\\.\\s', stripped): a backslash, one or more 'd', a
\* backslash, any character but a newline, a backslash and the letter s
NumberedItemRe(stripped) ==
    LET ds == RunInside(stripped, 2, {"d"})
    IN  /\ Chr(stripped, 1) = "\\"
        /\ ds >= 1
        /\ Chr(stripped, ds + 2) = "\\"
        /\ Len(stripped) >= ds + 3 /\ Chr(stripped, ds + 3) # "\n"
        /\ Slice(stripped, ds + 4, ds + 5) = "\\s"

_is_content_list(line) ==
    LET stripped == strip(line)
    IN  /\ \/ startswith(stripped, "- ")
           \/ startswith(stripped, "* ")
           \/ NumberedItemRe(stripped)
        /\ ~(Len(stripped) < 10)
        /\ ~AnyIn(Elements(nav_indicators), lower(stripped))

\* the '# ' branch of _is_main_content_start
MainHeadingStarts(line, ttl) ==
    LET heading_text == lower(strip(SubSeq(line, 3, Len(line))))
        title_words == Words(lower(ttl))
        heading_words == Words(heading_text)
    IN  /\ startswith(line, "# ")
        /\ ~AnyIn({"home", "menu", "navigation", "page"}, heading_text)
        /\ \/ /\ ttl # ""
              /\ 2 * Cardinality(title_words \cap heading_words)
                     >= Cardinality(title_words)
           \/ Len(heading_text) > 10

\* the '##' to '######' branch of _is_main_content_start
SectionHeadingStarts(line) ==
    /\ SectionHeadingRe(line)
    /\ Len(strip(line)) > 10
    /\ ~AnyIn(Elements(nav_indicators),
              lower(strip(SubSeq(line, SectionPrefix(line) + 1, Len(line)))))

_is_main_content_start(line, ttl, all_lines, index) ==
    \/ MainHeadingStarts(line, ttl)
    \/ SectionHeadingStarts(line)
    \/ _is_substantial_paragraph(line)
    \/ _is_content_list(line)
    \/ startswith(line, Backtick \o Backtick \o Backtick)
    \/ startswith(strip(line), Backtick)

\* the signs of lines 300 and 302, which a string of this module cannot hold
WarningSign == "(warning sign)"

ImportantSign == "(exclamation mark)"

_enhance_admonitions(line) ==
    LET stripped == strip(line)
    IN  IF startswith(stripped, "Note:") \/ startswith(stripped, "NOTE:")
        THEN replace(replace(line, "Note:", "> **Note:**"),
                     "NOTE:", "> **Note:**")
        ELSE IF startswith(stripped, "Tip:") \/ startswith(stripped, "TIP:")
        THEN replace(replace(line, "Tip:", "> **Tip:**"), "TIP:", "> **Tip:**")
        ELSE IF startswith(stripped, "Warning:")
                    \/ startswith(stripped, "WARNING:")
        THEN replace(replace(line, "Warning:",
                             "> **" \o WarningSign \o " Warning:**"),
                     "WARNING:", "> **" \o WarningSign \o " Warning:**")
        ELSE IF startswith(stripped, "Important:")
                    \/ startswith(stripped, "IMPORTANT:")
        THEN replace(replace(line, "Important:",
                             "> **" \o ImportantSign \o " Important:**"),
                     "IMPORTANT:", "> **" \o ImportantSign \o " Important:**")
        ELSE line

RECURSIVE StripParam(_, _)
\* re.sub(r'(\\?KEY[^\\s]+)', '', line): an optional backslash, the key and
\* one or more characters other than a backslash and the letter s
StripParam(s, key) ==
    LET hits == {i \in Occurrences(s, key) :
                    RunOutside(s, i + Len(key), {"\\", "s"}) >= 1}
    IN  IF hits = {} THEN s
        ELSE LET i == SetMin(hits)
                 first == IF Chr(s, i - 1) = "\\" THEN i - 1 ELSE i
                 last == i + Len(key) - 1
                             + RunOutside(s, i + Len(key), {"\\", "s"})
             IN  SubSeq(s, 1, first - 1)
                     \o StripParam(SubSeq(s, last + 1, Len(s)), key)

_enhance_links(line) == StripParam(StripParam(line, "utm_"), "ref=")

\* the line enhance_markdown_formatting returns
enhance_markdown_formatting(line) ==
    IF strip(line) = "" THEN line
    ELSE _enhance_links(_enhance_admonitions(line))

\* self._prev_line after enhance_markdown_formatting(line): _enhance_code_blocks
\* stores the stripped line it is given
PrevLineAfter(line, prev) ==
    IF strip(line) = "" THEN prev
    ELSE <<strip(_enhance_admonitions(line))>>

\* ------- the run-on repair of clean_markdown_content (lines 75-98)
\* lines 76-77: escaped newlines become newlines when they outnumber them
Unescape(text) ==
    IF Contains(text, "\\n") /\ count(text, "\\n") > count(text, "\n")
    THEN replace(text, "\\n", "\n")
    ELSE text

\* line 80: the content is mostly one long line
IsRunOn(text) == count(text, "\n") < 10 /\ Len(text) > 500

\* the positions of the periods r'(?<![eg])(?<![ie])\. ([A-Z])' matches
SentenceEnds(text) ==
    {i \in Occurrences(text, ". ") :
        /\ IsUpper(Chr(text, i + 2))
        /\ Chr(text, i - 1) \notin {"e", "g"}
        /\ Chr(text, i - 1) \notin {"i", "e"}}

RECURSIVE BreakSentences(_, _)
\* line 82: r'.\n\n\1' put for every match, the last one first
BreakSentences(text, ends) ==
    IF ends = {} THEN text
    ELSE LET i == SetMax(ends)
         IN  BreakSentences(SubSeq(text, 1, i) \o "\n\n"
                                \o SubSeq(text, i + 2, Len(text)),
                            ends \ {i})

\* the keyword of the list ks that text holds at position i, "" if none
KeywordAt(text, i, ks) ==
    LET found == {k \in 1..Len(ks) : Slice(text, i, i + Len(ks[k]) - 1) = ks[k]}
    IN  IF found = {} THEN "" ELSE ks[SetMin(found)]

RECURSIVE Leftmost(_, _)
\* re.sub takes the matches from left to right and skips those that start
\* inside a match already taken; last[i] is where the match starting at i ends
Leftmost(last, from) ==
    LET later == {i \in DOMAIN last : i >= from}
    IN  IF later = {} THEN {}
        ELSE {SetMin(later)} \cup Leftmost(last, last[SetMin(later)] + 1)

AdmonitionWords == <<"Tip", "Note", "Warning", "Important", "Caution">>

\* where the capital letter stands if
\* r'(?<!\n)(Tip|Note|Warning|Important|Caution)\s+([A-Z])' matches at i, else 0
AdmonitionEnd(text, i) ==
    LET k == KeywordAt(text, i, AdmonitionWords)
        w == RunInside(text, i + Len(k), Whitespace)
    IN  IF /\ k # ""
           /\ Chr(text, i - 1) # "\n"
           /\ w >= 1
           /\ IsUpper(Chr(text, i + Len(k) + w))
        THEN i + Len(k) + w
        ELSE 0

AdmonitionMatches(text) ==
    Leftmost([i \in {j \in 1..Len(text) : AdmonitionEnd(text, j) > 0}
                 |-> AdmonitionEnd(text, i)], 1)

RECURSIVE PromoteAdmonitions(_, _)
\* line 85: r'\n\n**\1:** \2' put for every match, the last one first
PromoteAdmonitions(text, starts) ==
    IF starts = {} THEN text
    ELSE LET i == SetMax(starts)
         IN  PromoteAdmonitions(
                 SubSeq(text, 1, i - 1) \o "\n\n**"
                     \o KeywordAt(text, i, AdmonitionWords) \o ":** "
                     \o SubSeq(text, AdmonitionEnd(text, i), Len(text)),
                 starts \ {i})

SectionWords ==
    <<"Using", "Creating", "Configuring", "Setting up", "Installing",
      "Troubleshooting", "Managing", "Building", "Deploying">>

\* where the second group of r'(?<!\n)(Using|...)\s+([a-z][^.]*?)(?=\s[A-Z])'
\* starts if the keyword and the white space match at i, else 0
SectionBody(text, i) ==
    LET k == KeywordAt(text, i, SectionWords)
        w == RunInside(text, i + Len(k), Whitespace)
    IN  IF /\ k # ""
           /\ Chr(text, i - 1) # "\n"
           /\ w >= 1
           /\ IsLower(Chr(text, i + Len(k) + w))
        THEN i + Len(k) + w
        ELSE 0

\* where the match starting at i ends: before the first white space that a
\* capital letter follows, with no period on the way; 0 if there is no match
SectionEnd(text, i) ==
    LET g == SectionBody(text, i)
        reach == g + RunOutside(text, g, {"."})
        stops == {q \in (g + 1)..(Len(text) - 1) :
                     /\ q <= reach
                     /\ Chr(text, q) \in Whitespace
                     /\ IsUpper(Chr(text, q + 1))}
    IN  IF g = 0 \/ stops = {} THEN 0 ELSE SetMin(stops) - 1

SectionMatches(text) ==
    Leftmost([i \in {j \in 1..Len(text) : SectionEnd(text, j) > 0}
                 |-> SectionEnd(text, i)], 1)

RECURSIVE PromoteSections(_, _)
\* line 88: r'\n\n## \1 \2' put for every match, the last one first
PromoteSections(text, starts) ==
    IF starts = {} THEN text
    ELSE LET i == SetMax(starts)
         IN  PromoteSections(
                 SubSeq(text, 1, i - 1) \o "\n\n## "
                     \o KeywordAt(text, i, SectionWords) \o " "
                     \o SubSeq(text, SectionBody(text, i), SectionEnd(text, i))
                     \o SubSeq(text, SectionEnd(text, i) + 1, Len(text)),
                 starts \ {i})

\* lines 82-88, one substitution after the other
RunOnRepair(text) ==
    LET sentences == BreakSentences(text, SentenceEnds(text))
        admonitions ==
            PromoteAdmonitions(sentences, AdmonitionMatches(sentences))
    IN  PromoteSections(admonitions, SectionMatches(admonitions))

\* lines 75-100: the lines the loop goes through
Preprocess(text) ==
    LET unescaped == Unescape(text)
    IN  split(IF IsRunOn(unescaped) THEN RunOnRepair(unescaped) ELSE unescaped,
              "\n")

\* ----------- ContentCleaner._clean_whitespace (src/content_filters.py 328-342)
RECURSIVE CollapseNewlines(_)
\* re.sub(r'\n{3,}', '\n\n', content)
CollapseNewlines(s) ==
    IF Occurrences(s, "\n\n\n") = {} THEN s
    ELSE LET i == SetMin(Occurrences(s, "\n\n\n"))
             n == RunInside(s, i, {"\n"})
         IN  SubSeq(s, 1, i - 1) \o "\n\n"
                 \o CollapseNewlines(SubSeq(s, i + n, Len(s)))

\* [line.rstrip() for line in content.split('\n')]
RstripLines(ls) == [i \in 1..Len(ls) |-> rstrip(ls[i])]

\* the two while loops: blank lines popped at the start and at the end
PopBlankEnds(ls) ==
    LET full == {i \in 1..Len(ls) : strip(ls[i]) # ""}
    IN  IF full = {} THEN <<>> ELSE SubSeq(ls, SetMin(full), SetMax(full))

_clean_whitespace(content) ==
    join("\n", PopBlankEnds(RstripLines(split(CollapseNewlines(content), "\n"))))

\* ------------------------------------------- calls of _clean_whitespace
\* the characters the texts are made of
WsChars == {"a", " ", "\t", "\n"}

WsInit ==
    /\ w_text \in {join("", t) : t \in SeqsUpTo(WsChars, MaxTextLen)}
    /\ w_once = ""
    /\ w_twice = ""
    /\ wpc = "start"

\* once = cleaner._clean_whitespace(text)
CleanOnce ==
    /\ wpc = "start"
    /\ w_once' = _clean_whitespace(w_text)
    /\ wpc' = "once"
    /\ UNCHANGED <<w_text, w_twice, nonWs>>

\* twice = cleaner._clean_whitespace(once)
CleanTwice ==
    /\ wpc = "once"
    /\ w_twice' = _clean_whitespace(w_once)
    /\ wpc' = "twice"
    /\ UNCHANGED <<w_text, w_once, nonWs>>

NextWhitespace == CleanOnce \/ CleanTwice

InitWhitespace ==
    CrawlIdle /\ PatternIdle /\ MatchIdle /\ DiscIdle /\ WsInit /\ CleanIdle /\ OrchIdle /\ CliIdle /\ TwinIdle /\ SelIdle /\ AgainIdle

SpecWhitespace == InitWhitespace /\ [][NextWhitespace]_vars

\* ------------------------------------- calls of clean_markdown_content
\* the lines the documents are made of
DocLines ==
    {"",
     "Search docs",
     "# Guide",
     "Substantial paragraph text here that is long enough.",
     "Copyright 2024 All rights reserved",
     "More content that would have been kept",
     "Bookmark our privacy policy"}

Titles == {"", "User Guide"}

RECURSIVE Repeat(_, _)
\* s * n
Repeat(s, n) == IF n = 0 THEN "" ELSE s \o Repeat(s, n - 1)

\* the footer example of the specification
FooterExample ==
    "## Guide\nSubstantial paragraph text here that is long enough.\n"
        \o "Copyright 2024 All rights reserved\n"
        \o "More content that would have been kept"

\* a document that arrives as one long line
RunOnExample ==
    Repeat("This sentence is about one topic. ", 15)
        \o "Note Keep e.g. This setting. Using the defaults Works. "
        \o "Copyright 2024 Example Inc. More content after the footer."

\* a document whose line breaks arrive escaped
EscapedExample ==
    "# Guide\\nSubstantial paragraph text here that is long enough.\\n"
        \o "Share this\\nlast updated today\\nMore content after the footer."

\* a document with page chrome around and inside the content
ChromeExample ==
    "\nShare this\nSearch docs\n# Guide\nQuickstart overview\n \t\n"
        \o "Note: keep the default settings here.\nPrint this page\n"
        \o "Read more at docs?utm_medium=mail today\n\n\n"
        \o "Edit this page\nSubstantial paragraph text here."

Documents ==
    {join("\n", ls) : ls \in SeqsUpTo(DocLines, MaxLines)}
        \cup {FooterExample, RunOnExample, EscapedExample, ChromeExample}

\* the sentences of the documents that arrive as one long line
RunOnSentences ==
    {"Next topic starts here",
     "See e.g",
     "That is i.e",
     "All went well"}

\* more than 500 characters without a period or a line break
RunOnFiller == Repeat("word ", 101)

\* one long line: the filler and some sentences, each ended by a period
RunOnDocuments ==
    {RunOnFiller \o join(". ", ls) \o "." :
        ls \in SeqsUpTo(RunOnSentences, MaxSentences)}

\* the state of a ContentCleaner before clean_content(doc, ttl) is called
CleanerFresh(doc, ttl) ==
    /\ markdown = doc
    /\ title = ttl
    /\ lines = <<>>
    /\ line_no = 0
    /\ cleaned_lines = <<>>
    /\ content_started = FALSE
    /\ in_footer = FALSE
    /\ skip_navigation_section = TRUE
    /\ kept = {}
    /\ prev_line = <<>>
    /\ c_result = ""
    /\ kpc = "start"

CleanInit == \E doc \in Documents, ttl \in Titles : CleanerFresh(doc, ttl)

\* a start of the pass that keeps the flags of the call before
CleanStartMutant ==
    /\ kpc = "start"
    /\ IF markdown = ""
       THEN /\ c_result' = markdown
            /\ kpc' = "done"
            /\ lines' = lines
       ELSE /\ lines' = Preprocess(markdown)
            /\ kpc' = "loop"
            /\ c_result' = c_result
    /\ line_no' = 0
    /\ cleaned_lines' = <<>>
    /\ in_footer' = FALSE
    /\ kept' = {}
    /\ UNCHANGED <<markdown, title, prev_line, content_started,
                   skip_navigation_section, nonClean>>
\* lines 69-104: an empty document is returned as it is; otherwise the
\* document is unwrapped and split, and the flags are set
CleanStart ==
    /\ kpc = "start"
    /\ IF markdown = ""
       THEN /\ c_result' = markdown
            /\ kpc' = "done"
            /\ lines' = lines
       ELSE /\ lines' = Preprocess(markdown)
            /\ kpc' = "loop"
            /\ c_result' = c_result
    /\ line_no' = 0
    /\ cleaned_lines' = <<>>
    /\ content_started' = FALSE
    /\ in_footer' = FALSE
    /\ skip_navigation_section' = TRUE
    /\ kept' = {}
    /\ UNCHANGED <<markdown, title, prev_line, nonClean>>

\* line 114, as a variant: the footer test gives way to the skip patterns
HitsFooterMutant(stripped) ==
    ~in_footer /\ _is_footer_line(stripped) /\ ~_should_skip_line(stripped)

\* line 114: if not in_footer and self._is_footer_line(stripped)
HitsFooter(stripped) == ~in_footer /\ _is_footer_line(stripped)

\* what one pass of the loop (lines 106-141) does with line i: the first test
\* that holds decides
Verdict(i) ==
    LET stripped == strip(lines[i])
    IN  IF ~content_started /\ stripped = "" THEN "blank"
        ELSE IF HitsFooter(stripped) THEN "footer"
        ELSE IF _should_skip_line(stripped) THEN "skip"
        ELSE IF /\ skip_navigation_section
                /\ _is_navigation_section(stripped, lines, i)
        THEN "navigation"
        ELSE IF /\ ~content_started
                /\ ~_is_main_content_start(stripped, title, lines, i)
        THEN "header"
        ELSE IF _is_likely_navigation(stripped) THEN "late navigation"
        ELSE "keep"

\* one pass of the loop: 'continue' for a dropped line, 'break' at the footer,
\* the enhanced line appended otherwise
CleanLine ==
    /\ kpc = "loop"
    /\ line_no < Len(lines)
    /\ \E verdict \in {Verdict(line_no + 1)} :
       LET i == line_no + 1
           starts == ~content_started /\ verdict \in {"late navigation", "keep"}
       IN  /\ line_no' = i
           /\ in_footer' = (in_footer \/ verdict = "footer")
           /\ content_started' = (content_started \/ starts)
           /\ skip_navigation_section' =
                  (IF starts THEN FALSE ELSE skip_navigation_section)
           /\ cleaned_lines' =
                  (IF verdict = "keep"
                   THEN Append(cleaned_lines,
                               enhance_markdown_formatting(lines[i]))
                   ELSE cleaned_lines)
           /\ kept' = (IF verdict = "keep" THEN kept \cup {i} ELSE kept)
           /\ prev_line' =
                  (IF verdict = "keep" THEN PrevLineAfter(lines[i], prev_line)
                   ELSE prev_line)
           /\ kpc' = (IF verdict = "footer" \/ i = Len(lines) THEN "join"
                      ELSE "loop")
    /\ UNCHANGED <<markdown, title, lines, c_result, nonClean>>

\* lines 143-145: the kept lines are joined and the white space cleaned
CleanReturn ==
    /\ kpc = "join"
    /\ c_result' = _clean_whitespace(join("\n", cleaned_lines))
    /\ kpc' = "done"
    /\ UNCHANGED <<markdown, title, lines, line_no, cleaned_lines,
                   content_started, in_footer, skip_navigation_section, kept,
                   prev_line, nonClean>>

NextClean == CleanStart \/ CleanLine \/ CleanReturn

InitClean ==
    CrawlIdle /\ PatternIdle /\ MatchIdle /\ DiscIdle /\ WsIdle /\ CleanInit /\ OrchIdle /\ CliIdle /\ TwinIdle /\ SelIdle /\ AgainIdle

SpecClean == InitClean /\ [][NextClean]_vars

\* clean_content on the documents that arrive as one long line
InitRepair ==
    /\ CrawlIdle /\ PatternIdle /\ MatchIdle /\ DiscIdle /\ WsIdle /\ OrchIdle /\ CliIdle /\ TwinIdle /\ SelIdle /\ AgainIdle
    /\ \E doc \in RunOnDocuments : CleanerFresh(doc, "")

SpecRepair == InitRepair /\ [][NextClean]_vars

\* the lines of the documents that open with headings and list items
HeadingLines ==
    {"## Setup Guide",
     "###### Deep API notes",
     "## Contact and sign in",
     "### Short",
     "1. Install it",
     "Overview of the command line tools",
     "Copyright 2024"}

HeadingDocuments == {join("\n", ls) : ls \in SeqsUpTo(HeadingLines, MaxLines)}

\* clean_content on the documents that open with headings and list items
InitHeadings ==
    /\ CrawlIdle /\ PatternIdle /\ MatchIdle /\ DiscIdle /\ WsIdle /\ OrchIdle /\ CliIdle /\ TwinIdle /\ SelIdle /\ AgainIdle
    /\ \E doc \in HeadingDocuments, ttl \in Titles : CleanerFresh(doc, ttl)

SpecHeadings == InitHeadings /\ [][NextClean]_vars

\* ------------------- one ContentCleaner, several documents
ReuseLines ==
    {"# Guide",
     "Substantial paragraph text here that is long enough."}

ReuseDocuments == {join("\n", ls) : ls \in SeqsUpTo(ReuseLines, MaxLines)}

\* clean_markdown_content has returned and is called again on the same
\* ContentCleaner: the attributes of the instance (_prev_line) stay, the
\* locals of the call that ended are gone. The third call is given the
\* document and the title of the first
CleanAgain ==
    /\ kpc = "done"
    /\ Len(passes) < 2
    /\ passes' = Append(passes, [doc |-> markdown, title |-> title,
                                 result |-> c_result])
    /\ IF passes = <<>>
       THEN markdown' \in ReuseDocuments /\ title' \in Titles
       ELSE markdown' = passes[1].doc /\ title' = passes[1].title
    /\ lines' = <<>>
    /\ line_no' = 0
    /\ cleaned_lines' = <<>>
    /\ kept' = {}
    /\ c_result' = ""
    /\ kpc' = "start"
    /\ UNCHANGED <<content_started, in_footer, skip_navigation_section,
                   prev_line>>
    /\ UNCHANGED <<crawlVars, patternVars, matchVars, discVars, wsVars,
                   orchVars, cliVars, twinVars, selVars>>

NextReuse ==
    \/ CleanStart
    \/ CleanLine
    \/ CleanReturn
    \/ CleanAgain

InitReuse ==
    /\ CrawlIdle /\ PatternIdle /\ MatchIdle /\ DiscIdle /\ WsIdle /\ OrchIdle /\ CliIdle /\ TwinIdle /\ SelIdle /\ AgainIdle
    /\ \E doc \in ReuseDocuments, ttl \in Titles : CleanerFresh(doc, ttl)

SpecReuse == InitReuse /\ [][NextReuse]_vars

\* ------------------- two discovery runs against the same fetch collaborator
\* the hrefs of the pages of the two runs: "https://x.com/a" and
\* "https://x.com/b#f"
TwinHrefs == {<<"x", "/", "a">>, <<"x", "/", "b", "#", "f">>}

\* what crawler.arun may answer: it raises, or returns a result that reports
\* non-success, or a successful result whose links are empty or hold a list
\* of at most MaxLinks hrefs
Answers ==
    {[outcome |-> "raise", has_links |-> FALSE, links |-> <<>>],
     [outcome |-> "fail", has_links |-> FALSE, links |-> <<>>],
     [outcome |-> "ok", has_links |-> FALSE, links |-> <<>>]}
        \cup {[outcome |-> "ok", has_links |-> TRUE, links |-> l] :
                  l \in SeqsUpTo(TwinHrefs, MaxLinks)}

\* crawler.arun(url): the answer already given for this URL, any answer for
\* a URL that is fetched for the first time
arun(url, answers) == IF url \in DOMAIN site THEN {site[url]} ELSE answers

TwinInit ==
    /\ DiscInit
    /\ start_url = <<"x", "/">>
    /\ d_exclude = NoneList
    /\ max_depth >= 1
    /\ max_pages = MaxPages
    /\ ~include_external
    /\ site = <<>>
    /\ link_no = 0
    /\ run = 1
    /\ first_run = <<>>

\* result = await crawler.arun(url=current_url, config=config), the
\* collaborator answering from the given set
FetchFrom(answers) ==
    /\ dpc = "fetching"
    /\ \E answer \in arun(current_url, answers) :
           /\ site' = DictSet(site, current_url, answer)
           /\ \/ /\ answer.outcome = "ok"
                 /\ DiscoverFetchOk
                 /\ (dpc' = "links") =
                        (answer.has_links /\ MayFollowLinks(depth_map[current_url]))
              \/ answer.outcome = "fail" /\ DiscoverFetchFails
              \/ answer.outcome = "raise" /\ DiscoverFetchRaises
    /\ link_no' = 0
    /\ UNCHANGED <<run, first_run>>

TwinFetch == FetchFrom(Answers)

\* the for loop takes the next link of the answer
TwinExtractLink ==
    /\ dpc = "links"
    /\ link_no < Len(site[current_url].links)
    /\ ExtractLink(site[current_url].links[link_no + 1])
    /\ link_no' = link_no + 1
    /\ UNCHANGED <<site, run, first_run>>

\* the for loop has taken every link of the answer
TwinEndLinks ==
    /\ dpc = "links"
    /\ link_no = Len(site[current_url].links)
    /\ EndLinks
    /\ link_no' = 0
    /\ UNCHANGED <<site, run, first_run>>

\* the first run has returned: its visit order and its list are kept, and
\* discover_urls is called again on a new URLDiscovery with the same
\* arguments and settings
SecondRun ==
    /\ run = 1
    /\ dpc = "done"
    /\ first_run' = [visits |-> fetch_log, returned |-> d_return]
    /\ run' = 2
    /\ to_visit' = <<>>
    /\ visited' = {}
    /\ discovered' = {}
    /\ depth_map' = <<>>
    /\ url_relationships' = <<>>
    /\ current_url' = <<>>
    /\ fetch_log' = <<>>
    /\ fetch_failed' = {}
    /\ d_return' = <<>>
    /\ limit_notice' = FALSE
    /\ dpc' = "idle"
    /\ UNCHANGED <<discConfig, site, link_no>>
    /\ UNCHANGED nonDisc

NextTwin ==
    \/ DiscoverStart /\ UNCHANGED twinVars
    \/ Dequeue /\ UNCHANGED twinVars
    \/ TwinFetch
    \/ TwinExtractLink
    \/ TwinEndLinks
    \/ DiscoverWake /\ UNCHANGED twinVars
    \/ DiscoverReturn /\ UNCHANGED twinVars
    \/ SecondRun

InitTwin ==
    /\ CrawlIdle /\ PatternIdle /\ MatchIdle /\ WsIdle /\ CleanIdle /\ OrchIdle /\ SelIdle /\ AgainIdle
    /\ CliIdle /\ TwinInit

SpecTwin == InitTwin /\ [][NextTwin]_vars

\* -------------- discovery on pages that link to other domains
\* result.links['internal'] may hold "https://x.com/a" and "https://y.com/a",
\* result.links['external'] may hold "https://y.com/b"
InternalHrefs == {<<"x", "/", "a">>, <<"y", "/", "a">>}
ExternalHrefs == {<<"y", "/", "b">>}

\* what crawler.arun may answer: a successful result reports its links in
\* two lists, 'internal' (links) and 'external'
ReportedAnswers ==
    {[outcome |-> "raise", has_links |-> FALSE, links |-> <<>>,
      external |-> <<>>],
     [outcome |-> "fail", has_links |-> FALSE, links |-> <<>>,
      external |-> <<>>]}
        \cup {[outcome |-> "ok", has_links |-> TRUE, links |-> l,
                external |-> e] :
                  l \in SeqsUpTo(InternalHrefs, MaxLinks),
                  e \in SeqsUpTo(ExternalHrefs, 1)}

ExternalInit ==
    /\ DiscInit
    /\ start_url = <<"x", "/">>
    /\ d_exclude = NoneList
    /\ max_depth >= 1
    /\ max_pages = MaxPages
    /\ site = <<>>
    /\ link_no = 0
    /\ run = 0
    /\ first_run = <<>>

ExternalFetch == FetchFrom(ReportedAnswers)

NextExternal ==
    \/ DiscoverStart /\ UNCHANGED twinVars
    \/ Dequeue /\ UNCHANGED twinVars
    \/ ExternalFetch
    \/ TwinExtractLink
    \/ TwinEndLinks
    \/ DiscoverWake /\ UNCHANGED twinVars
    \/ DiscoverReturn /\ UNCHANGED twinVars

InitExternal ==
    /\ CrawlIdle /\ PatternIdle /\ MatchIdle /\ WsIdle /\ CleanIdle /\ OrchIdle /\ SelIdle /\ AgainIdle
    /\ CliIdle /\ ExternalInit

SpecExternal == InitExternal /\ [][NextExternal]_vars

\* a walk from the seed "https://x.com/" over a finite link graph, for every
\* max depth and page budget
WalkInit ==
    /\ DiscInit
    /\ start_url = <<"x", "/">>
    /\ d_exclude = NoneList
    /\ site = <<>>
    /\ link_no = 0
    /\ run = 0
    /\ first_run = <<>>

InitWalk ==
    /\ CrawlIdle /\ PatternIdle /\ MatchIdle /\ WsIdle /\ CleanIdle /\ OrchIdle /\ AgainIdle
    /\ CliIdle /\ SelIdle /\ WalkInit

\* the for loop goes on to the next link of the page: the TwinExtractLink
\* steps, told by link_no
NextLink ==
    /\ dpc = "links"
    /\ link_no < Len(site[current_url].links)
    /\ link_no' = link_no + 1

\* the event loop runs discover_urls on: an awaited fetch or sleep ends, and
\* the code between two awaits runs to its end
WalkFair ==
    /\ WF_vars(DiscoverStart /\ UNCHANGED twinVars)
    /\ WF_vars(Dequeue /\ UNCHANGED twinVars)
    /\ WF_vars(ExternalFetch)
    /\ WF_link_no(NextLink)
    /\ WF_vars(TwinEndLinks)
    /\ WF_vars(DiscoverWake /\ UNCHANGED twinVars)
    /\ WF_vars(DiscoverReturn /\ UNCHANGED twinVars)

SpecWalk == InitWalk /\ [][NextExternal]_vars /\ WalkFair

\* ------------------------------------------------------------ output paths
\* the positions of s that hold a character outside the string cs
Outside(s, cs) == {i \in 1..Len(s) : ~Contains(cs, Chr(s, i))}

\* s.strip(cs)
strip_chars(s, cs) ==
    IF Outside(s, cs) = {} THEN ""
    ELSE SubSeq(s, SetMin(Outside(s, cs)), SetMax(Outside(s, cs)))

\* s.rstrip(cs)
rstrip_chars(s, cs) ==
    IF Outside(s, cs) = {} THEN "" ELSE SubSeq(s, 1, SetMax(Outside(s, cs)))

\* s.endswith(suf)
endswith(s, suf) ==
    Len(s) >= Len(suf) /\ SubSeq(s, Len(s) - Len(suf) + 1, Len(s)) = suf

\* the first position from i on that holds a character of cs, Len(s)+1 if none
NextOf(s, i, cs) ==
    SetMin({j \in i..Len(s) : Contains(cs, Chr(s, j))} \cup {Len(s) + 1})

\* urlparse(url) of a text "scheme://netloc/path?query#fragment": the netloc
\* ends at the first '/', '?' or '#', the path at the first '?' or '#'
urlparse_text(url) ==
    LET marks == Occurrences(url, "://")
        hostAt == IF marks = {} THEN 1 ELSE SetMin(marks) + 3
        pathAt == IF marks = {} THEN 1 ELSE NextOf(url, hostAt, "/?#")
        queryAt == NextOf(url, pathAt, "?#")
    IN  [netloc |-> SubSeq(url, hostAt, pathAt - 1),
         path |-> SubSeq(url, pathAt, queryAt - 1)]

RECURSIVE ReplaceEach(_, _, _)
\* for char in cs: s = s.replace(char, new)
ReplaceEach(s, cs, new) ==
    IF cs = "" THEN s
    ELSE ReplaceEach(replace(s, Chr(cs, 1), new), SubSeq(cs, 2, Len(cs)), new)

\* OutputManager.max_filename_length
max_filename_length == 255

\* OutputManager._clean_filename(filename); the texts of this model hold no
\* control characters
_clean_filename(filename) ==
    LET replaced == ReplaceEach(filename, "<>:\"|?*", "_")
        cut == IF Len(replaced) > max_filename_length - 3
               THEN SubSeq(replaced, 1, max_filename_length - 3)
               ELSE replaced
        stripped == rstrip_chars(cut, ". ")
    IN  IF stripped = "" THEN "unnamed" ELSE stripped

\* OutputManager._generate_filename(content_data) under NAMING_URL_BASED
_generate_filename(url) ==
    LET parsed == urlparse_text(url)
        domain == replace(parsed.netloc, "www.", "")
        path == strip_chars(parsed.path, "/")
        path_clean == replace(replace(path, "/", "_"), "-", "_")
        base_name == _clean_filename(IF path # "" THEN domain \o "_" \o path_clean
                                     ELSE domain)
    IN  IF endswith(base_name, ".md") THEN base_name ELSE base_name \o ".md"

\* CrawlConfig.output_dir
output_dir == "output"

\* OutputManager.get_file_path(content_data, base_dir) under FLAT_STRUCTURE
get_file_path(url, base_dir) == base_dir \o "/" \o _generate_filename(url)

\* ContentCrawler.url_to_filename(url)
url_to_filename(url) ==
    LET parsed == urlparse_text(url)
        replaced == ReplaceEach(parsed.netloc \o parsed.path, "/\\:*?\"<>|", "_")
        filename == strip_chars(replaced, "_")
    IN  IF endswith(filename, ".md") THEN filename ELSE filename \o ".md"

\* the path parts of the fallback of get_output_path: [p for p in
\* parsed.path.split('/') if p]
path_parts(url) == SelectSeq(split(urlparse_text(url).path, "/"), LAMBDA p : p # "")

\* ContentCrawler.get_output_path(url, content_data): the output manager's
\* path when the crawler has one, else the mirrored site structure when
\* config.organize_by_structure is set, else the flat file name
get_output_path(url, has_output_manager, organize_by_structure) ==
    IF has_output_manager THEN get_file_path(url, output_dir)
    ELSE IF organize_by_structure
         THEN LET parts == path_parts(url)
                  last == parts[Len(parts)]
                  dir_path == join("/", <<output_dir, urlparse_text(url).netloc>>
                                            \o SubSeq(parts, 1, Len(parts) - 1))
              IN  IF parts # <<>>
                  THEN dir_path \o "/"
                           \o (IF endswith(last, ".md") THEN last ELSE last \o ".md")
                  ELSE dir_path \o "/index.md"
         ELSE output_dir \o "/" \o url_to_filename(url)

\* the URLs of the batch: url_i is BatchUrls[i]
BatchUrls ==
    <<"https://x.com/docs?page=1", "https://x.com/docs?page=2", "https://x.com/about">>

\* ------------------------- the crawl functions (src/crawler.py 602-763)
\* discovered_urls[:10], urls[:10]: how many URLs the file preview covers
PreviewLimit == 10

EntryPoints ==
    {"crawl_with_discovery", "crawl_single", "crawl_multiple", "crawl_pattern"}

\* the k-th page of the site: "https://www.x.com/docs/page-a", "...page-b", ...
SiteUrl(k) == "https://www.x.com/docs/page-" \o Chr(Lowers, k)

\* the pages i..j of the site, in ascending order
SiteList(i, j) == [k \in 1..(j - i + 1) |-> SiteUrl(i + k - 1)]

\* the lists a call of discover_urls may return: sorted, without duplicates
DiscoveryResults == {SiteList(i, j) : i \in 1..2, j \in 0..MaxFound}

\* the lists crawl_multiple may be called with
UrlLists == {SiteList(1, j) : j \in 0..MaxFound}

\* list(all_discovered): the set in an order the caller does not choose; this
\* model draws the ascending and the descending order
Listings(set) ==
    LET ks == {k \in 1..Len(Lowers) : SiteUrl(k) \in set}
        n == Cardinality(ks)
        nth(r) == CHOOSE k \in ks : Cardinality({j \in ks : j <= k}) = r
    IN  {[r \in 1..n |-> SiteUrl(nth(r))], [r \in 1..n |-> SiteUrl(nth(n + 1 - r))]}

\* the file_preview loop over the first URLs of a list
file_preview(list) ==
    [k \in 1..(IF Len(list) < PreviewLimit THEN Len(list) ELSE PreviewLimit) |->
        get_file_path(list[k], output_dir)]

\* the callers that go through crawl_with_discovery
UsesDiscovery ==
    \/ entry \in {"crawl_with_discovery", "crawl_pattern"}
    \/ entry = "crawl_single" /\ deep_crawl

DryRunModeMutant == FALSE

\* if config.dry_run:
DryRunMode == dry_run

OrchInit ==
    /\ entry \in EntryPoints
    /\ dry_run \in BOOLEAN
    /\ deep_crawl \in
           (IF entry \in {"crawl_single", "crawl_multiple"} THEN BOOLEAN ELSE {FALSE})
    /\ o_urls \in
           (IF entry = "crawl_multiple"
            THEN {list \in UrlLists : deep_crawl => Len(list) <= MaxSeeds}
            ELSE {<<SiteUrl(1)>>})
    /\ next_seed = 1
    /\ discovered_urls = <<>>
    /\ all_discovered = {}
    /\ crawl_calls = <<>>
    /\ files = {}
    /\ report = <<>>
    /\ opc = "called"

\* ContentCrawler(config).crawl_urls(list) as its caller sees it: the pages
\* that were fetched are written under url_to_filename, then the summary
\* file; the summary is returned, with summary['discovery'] set when the
\* caller adds it.  When no page was written the output directory may be
\* missing, and the write of the summary raises.
CrawlUrlsCalled(list, discovery) ==
    /\ crawl_calls' = Append(crawl_calls, list)
    /\ \E outcome \in {"all", "none", "raises"} :
           LET saved == IF outcome = "all" THEN Elements(list) ELSE {}
               successful == IF outcome = "all" THEN Len(list) ELSE 0
               pages == {output_dir \o "/" \o url_to_filename(u) : u \in saved}
           IN  IF outcome = "raises"
               THEN /\ files' = files
                    /\ report' = <<>>
                    /\ opc' = "raised"
               ELSE /\ files' = files \cup pages
                                    \cup {output_dir \o "/crawl_summary.json"}
                    /\ report' =
                           IF discovery = <<>>
                           THEN [total_urls |-> Len(list),
                                 successful |-> successful,
                                 failed |-> Len(list) - successful]
                           ELSE [total_urls |-> Len(list),
                                 successful |-> successful,
                                 failed |-> Len(list) - successful,
                                 discovery |-> discovery[1]]
                    /\ opc' = "done"

\* lines 614-615: discovery.discover_urls(start_url, patterns, exclude_patterns)
DiscoverSeed ==
    /\ opc = "called"
    /\ UsesDiscovery
    /\ discovered_urls' \in DiscoveryResults
    /\ opc' = "discovered"
    /\ UNCHANGED <<entry, dry_run, deep_crawl, o_urls, next_seed, all_discovered,
                   crawl_calls, files, report>>
    /\ UNCHANGED nonOrch

\* lines 620-637: the dry run of crawl_with_discovery
DiscoveryDryRun ==
    /\ opc = "discovered"
    /\ DryRunMode
    /\ report' = [dry_run |-> TRUE,
                  total_urls |-> Len(discovered_urls),
                  discovered_urls |-> discovered_urls,
                  file_preview |-> file_preview(discovered_urls),
                  start_url |-> o_urls[1]]
    /\ opc' = "done"
    /\ UNCHANGED <<entry, dry_run, deep_crawl, o_urls, next_seed, discovered_urls,
                   all_discovered, crawl_calls, files>>
    /\ UNCHANGED nonOrch

\* lines 640-648: the discovered URLs are crawled
DiscoveryCrawl ==
    /\ opc = "discovered"
    /\ ~DryRunMode
    /\ discovered_urls # <<>>
    /\ CrawlUrlsCalled(discovered_urls,
           <<[start_url |-> o_urls[1], discovered_count |-> Len(discovered_urls)]>>)
    /\ UNCHANGED <<entry, dry_run, deep_crawl, o_urls, next_seed, discovered_urls,
                   all_discovered>>
    /\ UNCHANGED nonOrch

\* lines 649-655: nothing was discovered
DiscoveryEmpty ==
    /\ opc = "discovered"
    /\ ~DryRunMode
    /\ discovered_urls = <<>>
    /\ report' = [total_urls |-> 0, successful |-> 0, failed |-> 0]
    /\ opc' = "done"
    /\ UNCHANGED <<entry, dry_run, deep_crawl, o_urls, next_seed, discovered_urls,
                   all_discovered, crawl_calls, files>>
    /\ UNCHANGED nonOrch

\* lines 668-679: the dry run of crawl_single without deep crawl
SingleDryRun ==
    /\ opc = "called"
    /\ entry = "crawl_single" /\ ~deep_crawl
    /\ DryRunMode
    /\ report' = [dry_run |-> TRUE,
                  total_urls |-> 1,
                  discovered_urls |-> <<o_urls[1]>>,
                  file_preview |-> <<get_file_path(o_urls[1], output_dir)>>]
    /\ opc' = "done"
    /\ UNCHANGED <<entry, dry_run, deep_crawl, o_urls, next_seed, discovered_urls,
                   all_discovered, crawl_calls, files>>
    /\ UNCHANGED nonOrch

\* lines 681-682: crawl_single crawls its URL
SingleCrawl ==
    /\ opc = "called"
    /\ entry = "crawl_single" /\ ~deep_crawl
    /\ ~DryRunMode
    /\ CrawlUrlsCalled(<<o_urls[1]>>, <<>>)
    /\ UNCHANGED <<entry, dry_run, deep_crawl, o_urls, next_seed, discovered_urls,
                   all_discovered>>
    /\ UNCHANGED nonOrch

\* lines 697-703: one turn of the loop of crawl_multiple over its start URLs
MultipleDiscover ==
    /\ opc = "called"
    /\ entry = "crawl_multiple" /\ deep_crawl
    /\ next_seed <= Len(o_urls)
    /\ \E found \in DiscoveryResults :
           all_discovered' = all_discovered \cup Elements(found)
    /\ next_seed' = next_seed + 1
    /\ UNCHANGED <<entry, dry_run, deep_crawl, o_urls, discovered_urls, crawl_calls,
                   files, report, opc>>
    /\ UNCHANGED nonOrch

\* lines 706-721: the dry run of crawl_multiple after discovery
MultipleDeepDryRun ==
    /\ opc = "called"
    /\ entry = "crawl_multiple" /\ deep_crawl
    /\ next_seed > Len(o_urls)
    /\ DryRunMode
    /\ \E discovered_list \in Listings(all_discovered) :
           report' = [dry_run |-> TRUE,
                      total_urls |-> Cardinality(all_discovered),
                      discovered_urls |-> discovered_list,
                      file_preview |-> file_preview(discovered_list)]
    /\ opc' = "done"
    /\ UNCHANGED <<entry, dry_run, deep_crawl, o_urls, next_seed, discovered_urls,
                   all_discovered, crawl_calls, files>>
    /\ UNCHANGED nonOrch

\* lines 724-726: crawl_multiple crawls what was discovered
MultipleDeepCrawl ==
    /\ opc = "called"
    /\ entry = "crawl_multiple" /\ deep_crawl
    /\ next_seed > Len(o_urls)
    /\ ~DryRunMode
    /\ all_discovered # {}
    /\ \E list \in Listings(all_discovered) : CrawlUrlsCalled(list, <<>>)
    /\ UNCHANGED <<entry, dry_run, deep_crawl, o_urls, next_seed, discovered_urls,
                   all_discovered>>
    /\ UNCHANGED nonOrch

\* lines 727-733: crawl_multiple discovered nothing
MultipleDeepEmpty ==
    /\ opc = "called"
    /\ entry = "crawl_multiple" /\ deep_crawl
    /\ next_seed > Len(o_urls)
    /\ ~DryRunMode
    /\ all_discovered = {}
    /\ report' = [total_urls |-> 0, successful |-> 0, failed |-> 0]
    /\ opc' = "done"
    /\ UNCHANGED <<entry, dry_run, deep_crawl, o_urls, next_seed, discovered_urls,
                   all_discovered, crawl_calls, files>>
    /\ UNCHANGED nonOrch

\* lines 736-750: the dry run of crawl_multiple without deep crawl
MultipleDryRun ==
    /\ opc = "called"
    /\ entry = "crawl_multiple" /\ ~deep_crawl
    /\ DryRunMode
    /\ report' = [dry_run |-> TRUE,
                  total_urls |-> Len(o_urls),
                  discovered_urls |-> o_urls,
                  file_preview |-> file_preview(o_urls)]
    /\ opc' = "done"
    /\ UNCHANGED <<entry, dry_run, deep_crawl, o_urls, next_seed, discovered_urls,
                   all_discovered, crawl_calls, files>>
    /\ UNCHANGED nonOrch

\* lines 753-754: crawl_multiple crawls its URLs
MultipleCrawl ==
    /\ opc = "called"
    /\ entry = "crawl_multiple" /\ ~deep_crawl
    /\ ~DryRunMode
    /\ CrawlUrlsCalled(o_urls, <<>>)
    /\ UNCHANGED <<entry, dry_run, deep_crawl, o_urls, next_seed, discovered_urls,
                   all_discovered>>
    /\ UNCHANGED nonOrch

NextOrchestrate ==
    \/ DiscoverSeed \/ DiscoveryDryRun \/ DiscoveryCrawl \/ DiscoveryEmpty
    \/ SingleDryRun \/ SingleCrawl
    \/ MultipleDiscover \/ MultipleDeepDryRun \/ MultipleDeepCrawl
    \/ MultipleDeepEmpty \/ MultipleDryRun \/ MultipleCrawl

InitOrchestrate ==
    CrawlIdle /\ PatternIdle /\ MatchIdle /\ DiscIdle /\ WsIdle /\ CleanIdle /\ OrchInit /\ CliIdle /\ TwinIdle /\ SelIdle /\ AgainIdle

SpecOrchestrate == InitOrchestrate /\ [][NextOrchestrate]_vars

\* ------------------- InteractiveCLI (src/main.py 172-196, 1038-1123, 1224-1360)
\* what the CLI, URLDiscovery and ContentCrawler leave alone
beside == <<patternVars, matchVars, wsVars, cleanVars, orchVars, twinVars, selVars, againVars>>

\* __init__ and the start of run: --dry-run sets config.dry_run, the SIGINT
\* handler is installed, the menu loop is entered
CliInit ==
    /\ config_dry_run \in BOOLEAN
    /\ interrupted = FALSE
    /\ choice = "0"
    /\ cli_urls = <<>>
    /\ cli_seed = 1
    /\ cli_found = {}
    /\ clipc = "menu"

\* while not self.interrupted: choice = self.main_menu()
MenuOpen == clipc = "menu" /\ ~interrupted

\* URLDiscovery(self.config) and the call of discover_urls(seed, pats, None)
\* with the settings of the CLI's config
CallDiscoverUrls(seed, pats, pause) ==
    /\ start_url' = seed
    /\ d_patterns' = pats
    /\ d_exclude' = NoneList
    /\ max_depth' = 1
    /\ max_pages' = MaxPages
    /\ include_external' = FALSE
    /\ d_delay' = pause
    /\ verbose' = verbose
    /\ to_visit' = <<>>
    /\ visited' = {}
    /\ discovered' = {}
    /\ depth_map' = <<>>
    /\ url_relationships' = <<>>
    /\ current_url' = <<>>
    /\ fetch_log' = <<>>
    /\ fetch_failed' = {}
    /\ d_return' = <<>>
    /\ limit_notice' = FALSE
    /\ dpc' = "idle"
    /\ clipc' = "discovering"

\* the URLDiscovery object is dropped once its list has been taken
DropDiscovery ==
    /\ start_url' = <<>>
    /\ d_patterns' = NoneList
    /\ d_exclude' = NoneList
    /\ max_depth' = 0
    /\ max_pages' = 0
    /\ include_external' = FALSE
    /\ d_delay' = 0
    /\ verbose' = verbose
    /\ to_visit' = <<>>
    /\ visited' = {}
    /\ discovered' = {}
    /\ depth_map' = <<>>
    /\ url_relationships' = <<>>
    /\ current_url' = <<>>
    /\ fetch_log' = <<>>
    /\ fetch_failed' = {}
    /\ d_return' = <<>>
    /\ limit_notice' = FALSE
    /\ dpc' = "idle"

\* ContentCrawler(self.config, self.output_manager).crawl_urls(list) is
\* called with a list of n URLs
CallCrawlUrls(n, pause) ==
    /\ urls' = n
    /\ page' = [i \in 1..n |-> DefaultPage]
    /\ concurrent_limit' \in 1..MaxLimit
    /\ delay_between_requests' = pause
    /\ semaphore' = 0
    /\ task' = [i \in 1..n |-> "created"]
    /\ fetched' = [i \in 1..n |-> "none"]
    /\ results' = <<>>
    /\ failed_urls' = <<>>
    /\ dir_exists' \in BOOLEAN
    /\ written' = {}
    /\ summary' = <<>>
    /\ summary_file' = 0
    /\ cpc' = "idle"
    /\ clipc' = "crawling"
    /\ cli_urls' = <<>>
    /\ cli_seed' = 1
    /\ cli_found' = {}

\* the ContentCrawler is dropped once crawl_urls has returned or raised
DropCrawler ==
    /\ urls' = 0
    /\ page' = <<>>
    /\ concurrent_limit' = 1
    /\ delay_between_requests' = 0
    /\ semaphore' = 0
    /\ task' = <<>>
    /\ fetched' = <<>>
    /\ results' = <<>>
    /\ failed_urls' = <<>>
    /\ dir_exists' = FALSE
    /\ written' = {}
    /\ summary' = <<>>
    /\ summary_file' = 0
    /\ cpc' = "idle"

\* lines 1342-1345 and 1350-1355: "Continue with another crawl?" after a
\* crawl, "Continue?" after an error; the answer no leaves the loop
AskContinue ==
    /\ clipc' \in {"menu", "exited"}
    /\ choice' = "0"
    /\ cli_urls' = <<>>
    /\ cli_seed' = 1
    /\ cli_found' = {}

\* choice "1" (lines 1238-1279): with deep crawl and patterns the URLs are
\* discovered first, otherwise execute_crawl("single") crawls the URL
ChooseSingle ==
    /\ MenuOpen
    /\ \E url \in Seeds, deep \in BOOLEAN, pats \in IncludeLists, pause \in {0, 1} :
           IF deep /\ ~Falsy(pats)
           THEN /\ CallDiscoverUrls(url, pats, pause)
                /\ cli_urls' = <<url>>
                /\ UNCHANGED <<cli_seed, cli_found, crawlVars>>
           ELSE /\ CallCrawlUrls(1, pause)
                /\ UNCHANGED discVars
    /\ choice' = "1"
    /\ UNCHANGED <<config_dry_run, interrupted>>
    /\ UNCHANGED beside

\* choice "2" (lines 1281-1296) and the start of execute_crawl("pattern")
ChoosePattern ==
    /\ MenuOpen
    /\ \E url \in Seeds, pats \in IncludeLists, pause \in {0, 1} :
           /\ cli_urls' = <<url>>
           /\ CallDiscoverUrls(url, pats, pause)
    /\ choice' = "2"
    /\ UNCHANGED <<config_dry_run, interrupted, cli_seed, cli_found>>
    /\ UNCHANGED crawlVars
    /\ UNCHANGED beside

\* choice "3" (lines 1298-1320) and the start of execute_crawl("multiple"):
\* nothing is done for an empty list; with deep crawl the first URL is
\* discovered from, otherwise the URLs are crawled
ChooseMultiple ==
    /\ MenuOpen
    /\ \E list \in SeqsUpTo(Seeds, MaxSeeds), deep \in BOOLEAN,
          pats \in IncludeLists, pause \in {0, 1} :
           IF list = <<>>
           THEN AskContinue /\ UNCHANGED <<crawlVars, discVars>>
           ELSE IF deep
                THEN /\ CallDiscoverUrls(list[1], pats, pause)
                     /\ choice' = "3"
                     /\ cli_urls' = list
                     /\ UNCHANGED <<cli_seed, cli_found, crawlVars>>
                ELSE /\ CallCrawlUrls(Len(list), pause)
                     /\ choice' = "3"
                     /\ UNCHANGED discVars
    /\ UNCHANGED <<config_dry_run, interrupted>>
    /\ UNCHANGED beside

\* choice "6" (lines 1328-1335)
ToggleDryRun ==
    /\ MenuOpen
    /\ config_dry_run' = ~config_dry_run
    /\ UNCHANGED <<interrupted, choice, cli_urls, cli_seed, cli_found, clipc>>
    /\ UNCHANGED <<crawlVars, discVars>>
    /\ UNCHANGED beside

\* choice "8" (lines 1337-1340)
ChooseExit ==
    /\ MenuOpen
    /\ clipc' = "exited"
    /\ UNCHANGED <<config_dry_run, interrupted, choice, cli_urls, cli_seed, cli_found>>
    /\ UNCHANGED <<crawlVars, discVars>>
    /\ UNCHANGED beside

\* the loop condition is false once self.interrupted is set
LoopEnds ==
    /\ clipc = "menu"
    /\ interrupted
    /\ clipc' = "exited"
    /\ UNCHANGED <<config_dry_run, interrupted, choice, cli_urls, cli_seed, cli_found>>
    /\ UNCHANGED <<crawlVars, discVars>>
    /\ UNCHANGED beside

\* lines 1258-1270: the discovery of choice "1" has returned; the user selects
\* some of the URLs and the selected ones are crawled
SelectAndCrawl ==
    /\ clipc = "discovering" /\ dpc = "done"
    /\ choice = "1"
    /\ \E selected \in 0..Len(d_return) :
           IF selected > 0
           THEN CallCrawlUrls(selected, d_delay) /\ UNCHANGED choice
           ELSE AskContinue /\ UNCHANGED crawlVars
    /\ DropDiscovery
    /\ UNCHANGED <<config_dry_run, interrupted>>
    /\ UNCHANGED beside

\* lines 1072-1086: the discovery of execute_crawl("pattern") has returned
PatternCrawl ==
    /\ clipc = "discovering" /\ dpc = "done"
    /\ choice = "2"
    /\ IF d_return # <<>>
       THEN CallCrawlUrls(Len(d_return), d_delay) /\ UNCHANGED choice
       ELSE AskContinue /\ UNCHANGED crawlVars
    /\ DropDiscovery
    /\ UNCHANGED <<config_dry_run, interrupted>>
    /\ UNCHANGED beside

\* lines 1097-1112: one discovery of execute_crawl("multiple") has returned;
\* the next start URL is discovered from, or all that was found is crawled
MultipleCollect ==
    /\ clipc = "discovering" /\ dpc = "done"
    /\ choice = "3"
    /\ \E all_found \in {cli_found \cup Elements(d_return)} :
           IF cli_seed < Len(cli_urls)
           THEN /\ CallDiscoverUrls(cli_urls[cli_seed + 1], d_patterns, d_delay)
                /\ cli_seed' = cli_seed + 1
                /\ cli_found' = all_found
                /\ UNCHANGED <<choice, cli_urls, crawlVars>>
           ELSE /\ DropDiscovery
                /\ IF all_found # {}
                   THEN CallCrawlUrls(Cardinality(all_found), d_delay) /\ UNCHANGED choice
                   ELSE AskContinue /\ UNCHANGED crawlVars
    /\ UNCHANGED <<config_dry_run, interrupted>>
    /\ UNCHANGED beside

\* crawl_urls has returned: display_results, then "Continue with another crawl?"
Crawled ==
    /\ clipc = "crawling" /\ cpc = "returned"
    /\ AskContinue
    /\ DropCrawler
    /\ UNCHANGED <<config_dry_run, interrupted>>
    /\ UNCHANGED discVars
    /\ UNCHANGED beside

\* lines 1350-1355: crawl_urls has raised; the error is shown, then "Continue?"
CrawlFailed ==
    /\ clipc = "crawling" /\ cpc = "raised"
    /\ AskContinue
    /\ DropCrawler
    /\ UNCHANGED <<config_dry_run, interrupted>>
    /\ UNCHANGED discVars
    /\ UNCHANGED beside

\* signal_handler (lines 193-196): SIGINT arrives while the CLI runs
signal_handler ==
    /\ clipc \in {"menu", "discovering", "crawling"}
    /\ ~interrupted
    /\ interrupted' = TRUE
    /\ UNCHANGED <<config_dry_run, choice, cli_urls, cli_seed, cli_found, clipc>>
    /\ UNCHANGED <<crawlVars, discVars>>
    /\ UNCHANGED beside

\* the steps of discover_urls and crawl_urls while the CLI awaits them
Awaited ==
    \/ clipc = "discovering" /\ NextDiscovery
    \/ clipc = "crawling" /\ NextCrawl

NextCli ==
    \/ ChooseSingle \/ ChoosePattern \/ ChooseMultiple \/ ToggleDryRun
    \/ ChooseExit \/ LoopEnds
    \/ SelectAndCrawl \/ PatternCrawl \/ MultipleCollect
    \/ Crawled \/ CrawlFailed
    \/ signal_handler
    \/ Awaited

InitCli ==
    /\ CrawlIdle /\ PatternIdle /\ MatchIdle /\ DiscIdle /\ WsIdle /\ CleanIdle /\ TwinIdle /\ SelIdle /\ AgainIdle
    /\ OrchIdle /\ CliInit

SpecCli == InitCli /\ [][NextCli]_vars

\* ------------------- SelectorExtractor (src/selector_utils.py 56-165)
\* the elements of the parsed document, in document order: element 1 is the
\* outermost, element n + 1 is the only child of element n; the elements
\* differ in content, so that == on them is identity
Nodes == 1..MaxNodes

\* the elements below element n
Descendants(n) == {d \in Nodes : d > n}

\* the elements above element n
Ancestors(n) == {a \in Nodes : a < n}

RECURSIVE InOrder(_)
\* soup.select(selector), tree.xpath(expression): the elements that match,
\* in document order
InOrder(set) ==
    IF set = {} THEN <<>>
    ELSE <<SetMin(set)>> \o InOrder(set \ {SetMin(set)})

\* the lists of at most MaxRules selectors, each given by what it matches
RuleLists == SeqsUpTo(SUBSET Nodes, MaxRules)

RECURSIVE Extend(_)
\* extracted_elements.extend(elements), selector after selector
Extend(selectors) ==
    IF selectors = <<>> THEN <<>>
    ELSE InOrder(Head(selectors)) \o Extend(Tail(selectors))

\* list.remove(x): the first element equal to x is taken out
RemoveFirst(list, x) ==
    LET at == SetMin({j \in DOMAIN list : list[j] = x})
    IN  SubSeq(list, 1, at - 1) \o SubSeq(list, at + 1, Len(list))

\* the tests extract_by_css makes on an element for one exclude selector:
\* element.select_one(exclude_selector) finds an element below it, or the
\* element is among parent.select(exclude_selector)
CssHit(element, rule) ==
    \/ Descendants(element) \cap rule # {}
    \/ element \in rule

RECURSIVE RemoveEach(_, _)
\* for element in excluded: if element in extracted_elements: remove it
RemoveEach(list, excluded) ==
    IF excluded = <<>> THEN list
    ELSE RemoveEach(IF Head(excluded) \in Range(list)
                    THEN RemoveFirst(list, Head(excluded)) ELSE list,
                    Tail(excluded))

SelInit ==
    /\ s_method \in {"css", "xpath"}
    /\ s_selectors \in RuleLists
    /\ s_exclude \in RuleLists
    /\ extracted_elements = <<>>
    /\ s_pos = 0
    /\ s_result = <<>>
    /\ spc = "idle"

\* the call up to the exclusion loop: no selectors returns "" at once, else
\* the matches of every selector are collected
Select ==
    /\ spc = "idle"
    /\ IF s_selectors = <<>>
       THEN spc' = "done" /\ UNCHANGED extracted_elements
       ELSE spc' = "exclude" /\ extracted_elements' = Extend(s_selectors)
    /\ UNCHANGED <<s_method, s_selectors, s_exclude, s_pos, s_result>>
    /\ UNCHANGED nonSel

\* extract_by_css, one pass of "for element in extracted_elements[:]": the
\* element is removed at the first exclude selector that hits
CssExclude ==
    /\ spc = "exclude"
    /\ s_method = "css"
    /\ s_exclude # <<>>
    /\ s_pos < Len(Extend(s_selectors))
    /\ LET element == Extend(s_selectors)[s_pos + 1]
       IN  extracted_elements' =
               IF \E k \in DOMAIN s_exclude : CssHit(element, s_exclude[k])
               THEN RemoveFirst(extracted_elements, element)
               ELSE extracted_elements
    /\ s_pos' = s_pos + 1
    /\ UNCHANGED <<s_method, s_selectors, s_exclude, s_result, spc>>
    /\ UNCHANGED nonSel

\* extract_by_xpath, one pass of "for exclude_expr in exclude_xpath"
XpathExclude ==
    /\ spc = "exclude"
    /\ s_method = "xpath"
    /\ s_pos < Len(s_exclude)
    /\ extracted_elements' =
           RemoveEach(extracted_elements, InOrder(s_exclude[s_pos + 1]))
    /\ s_pos' = s_pos + 1
    /\ UNCHANGED <<s_method, s_selectors, s_exclude, s_result, spc>>
    /\ UNCHANGED nonSel

\* the exclusion loop is over (or there are no exclude rules): the text of
\* the elements that are left is joined and returned
SelectReturn ==
    /\ spc = "exclude"
    /\ \/ s_exclude = <<>>
       \/ s_method = "css" /\ s_pos = Len(Extend(s_selectors))
       \/ s_method = "xpath" /\ s_pos = Len(s_exclude)
    /\ s_result' = extracted_elements
    /\ spc' = "done"
    /\ UNCHANGED <<s_method, s_selectors, s_exclude, extracted_elements, s_pos>>
    /\ UNCHANGED nonSel

NextSelect ==
    \/ Select
    \/ CssExclude
    \/ XpathExclude
    \/ SelectReturn

InitSelect ==
    /\ CrawlIdle /\ PatternIdle /\ MatchIdle /\ DiscIdle /\ WsIdle /\ CleanIdle /\ AgainIdle
    /\ OrchIdle /\ CliIdle /\ TwinIdle /\ SelInit

SpecSelect == InitSelect /\ [][NextSelect]_vars

\* ------------------------------------------------------------------ claims

\* the tasks that hold a slot of the semaphore
Holders == {i \in Tasks : task[i] \in {"fetching", "saving", "sleeping"}}

\* the tasks whose crawl_single_url has started and not yet finished
InFlight == {i \in Tasks : task[i] \in {"fetching", "saving"}}

\* C1: during crawl_urls with concurrent_limit = N >= 1 at most N fetches are
\* in flight in every reachable state, and every slot is accounted for: a
\* waiting URL starts only when a slot is free (semaphore value + holders = N).
C1_ConcurrencyBound ==
    cpc = "gather" =>
        /\ Cardinality(InFlight) <= concurrent_limit
        /\ Cardinality(Holders) <= concurrent_limit
        /\ semaphore >= 0
        /\ semaphore + Cardinality(Holders) = concurrent_limit

\* more URLs than slots, every slot taken and a URL still waiting
C1_Witness ==
    /\ cpc = "gather"
    /\ urls > concurrent_limit
    /\ Cardinality(InFlight) = concurrent_limit
    /\ \E i \in Tasks : task[i] = "waiting"

\* the URLs whose fetch raised or reported non-success
FailedSet == {i \in Tasks : fetched[i] \in {"nonsuccess", "raise"}}

MatchesSome(list, url) ==
    list.some /\ \E j \in 1..Len(list.v) : PatternMatches(list.v[j], url)

\* C6: match_url_pattern returns true if and only if the URL matches no
\* exclude pattern and the include list is empty or None or the URL matches at
\* least one include pattern; an excluded URL is rejected whatever the
\* include list holds.
C6_AdmitIff ==
    mpc = "returned" =>
        /\ m_result <=> /\ ~MatchesSome(m_exclude, m_url)
                        /\ Falsy(m_patterns) \/ MatchesSome(m_patterns, m_url)
        /\ MatchesSome(m_exclude, m_url) => ~m_result

\* a URL that an include pattern and an exclude pattern both match was rejected
C6_Witness ==
    /\ mpc = "returned"
    /\ MatchesSome(m_exclude, m_url)
    /\ MatchesSome(m_patterns, m_url)
    /\ ~m_result

RECURSIVE GlobMatch(_, _)
\* the glob of the specification: '**' is any run of characters, '*' any run
\* of characters other than '/', '?' is one character, any other character is
\* itself; the whole URL must match
GlobMatch(p, u) ==
    IF p = <<>> THEN u = <<>>
    ELSE IF Len(p) >= 2 /\ p[1] = "*" /\ p[2] = "*"
         THEN \E n \in 0..Len(u) :
                  GlobMatch(SubSeq(p, 3, Len(p)), SubSeq(u, n + 1, Len(u)))
    ELSE IF p[1] = "*"
         THEN \E n \in 0..Len(u) :
                  /\ \A j \in 1..n : u[j] # "/"
                  /\ GlobMatch(Tail(p), SubSeq(u, n + 1, Len(u)))
    ELSE IF p[1] = "?" THEN u # <<>> /\ GlobMatch(Tail(p), Tail(u))
    ELSE u # <<>> /\ u[1] = p[1] /\ GlobMatch(Tail(p), Tail(u))

\* C7: for every pattern and URL over the alphabet ('/', '.', '|', '\', a
\* letter, and the wildcards in patterns) the matcher built by
\* convert_wildcard_to_regex accepts the URL exactly when the whole URL
\* matches the glob.
C7_GlobSemantics ==
    ppc = "matched" => (p_matched <=> GlobMatch(p_pattern, p_url))

\* C8: "*/blog/**" matches "https://x.com/a/blog/2024/post" and does not
\* match "https://x.com/blog".
C8_BlogPattern ==
    (ppc = "matched" /\ p_pattern = BlogPattern) =>
        /\ p_url = BlogDeepUrl => p_matched
        /\ p_url = BlogShortUrl => ~p_matched

ChildSlots ==
    UNION {{<<p, j>> : j \in 1..Len(url_relationships[p])} : p \in DOMAIN url_relationships}

\* the URLs listed as a child of some page
Children == {url_relationships[e[1]][e[2]] : e \in ChildSlots}

\* C4: the seed has recorded depth 0, every URL enqueued from a page of
\* recorded depth d has recorded depth d+1 and is listed as a child of that
\* page in url_relationships, and no URL that is queued, visited or admitted
\* has a recorded depth greater than max_depth.
C4_Depths ==
    dpc # "idle" =>
        /\ depth_map[start_url] = 0
        /\ \A u \in Range(to_visit) \cup visited \cup discovered :
               u \in DOMAIN depth_map /\ depth_map[u] <= max_depth
        /\ \A e \in ChildSlots :
               LET child == url_relationships[e[1]][e[2]]
               IN  /\ e[1] \in DOMAIN depth_map
                   /\ child \in DOMAIN depth_map
                   /\ depth_map[child] = depth_map[e[1]] + 1
        /\ (DOMAIN depth_map) \ {start_url} = Children

\* a URL at the maximum depth 2 was fetched: the child of a child of the seed
C4_Witness ==
    /\ dpc # "idle"
    /\ max_depth = 2
    /\ \E u \in visited :
           /\ depth_map[u] = 2
           /\ \E e \in ChildSlots :
                  /\ url_relationships[e[1]][e[2]] = u
                  /\ depth_map[e[1]] = 1

\* C5: within one discovery run the frontier queue never holds the same URL
\* twice nor a URL of the visited set (so a dequeued URL is never put back),
\* every URL is enqueued at most once and fetched at most once.
C5_EnqueuedOnce ==
    /\ \A i, j \in 1..Len(to_visit) : i # j => to_visit[i] # to_visit[j]
    /\ Range(to_visit) \cap visited = {}
    /\ \A i, j \in 1..Len(fetch_log) : i # j => fetch_log[i] # fetch_log[j]
    /\ Range(fetch_log) = visited
    /\ dpc # "idle" =>
           /\ Cardinality(ChildSlots) = Cardinality(Children)
           /\ start_url \notin Children

\* a page other than the seed is being read and one of its links leads back
\* to the seed, which was visited
C5_Witness ==
    /\ dpc = "links"
    /\ current_url # start_url
    /\ start_url \in visited
    /\ to_visit # <<>>
    /\ \E link \in Hrefs : normalize_url(link, current_url) = start_url

\* the lines of the loop that match a footer indicator
FooterLines == {i \in 1..Len(lines) : _is_footer_line(strip(lines[i]))}

\* the text of line i, unless a line kept from before line f holds that text too
OwnText(i, f) ==
    LET text == strip(lines[i])
    IN  IF \E j \in 1..(f - 1) :
               Contains(enhance_markdown_formatting(lines[j]), text)
        THEN ""
        ELSE text

\* C9: the output of clean_markdown_content holds no text of the first line
\* that matches a footer indicator nor of any line after it: the loop stops at
\* that line, no line from it on is kept, and the returned text holds none of
\* their text, also when such a line would start the content or when the
\* footer line matches a skip pattern too.
C9_FooterTruncates ==
    (kpc \in {"loop", "join", "done"} /\ FooterLines # {}) =>
        \E f \in {SetMin(FooterLines)} :
            /\ line_no <= f
            /\ \A i \in kept : i < f
            /\ kpc = "done" =>
                   \A i \in f..Len(lines) :
                       OwnText(i, f) # "" => ~Contains(c_result, OwnText(i, f))

\* a finished pass over a document with kept content, whose footer line also
\* matches a skip pattern and is followed by a line that would start content
C9_Witness ==
    /\ kpc = "done"
    /\ FooterLines # {}
    /\ kept # {}
    /\ c_result # ""
    /\ _should_skip_line(strip(lines[SetMin(FooterLines)]))
    /\ \E i \in (SetMin(FooterLines) + 1)..Len(lines) :
           /\ OwnText(i, SetMin(FooterLines)) # ""
           /\ _is_main_content_start(strip(lines[i]), title, lines, i)

\* whether two lines in a row of text t are blank (empty or only whitespace)
TwoBlankLines(t) ==
    LET ls == split(t, "\n")
    IN  \E i \in 1..(Len(ls) - 1) : strip(ls[i]) = "" /\ strip(ls[i + 1]) = ""

\* C10: whitespace normalization is idempotent, _clean_whitespace applied to
\* its own result gives that result again, and its result never holds two
\* consecutive blank lines; for every text, texts with lines of only spaces or
\* tabs included.
C10_Idempotent ==
    /\ wpc = "twice" => w_twice = w_once
    /\ wpc \in {"once", "twice"} => ~TwoBlankLines(w_once)

\* the text the loop goes through, its lines joined again
Repaired == join("\n", lines)

\* whether the period at position j of text t ends "e.g." or "i.e."
AfterAbbreviation(t, j) == Slice(t, j - 3, j) \in {"e.g.", "i.e."}

\* C11: in a document of fewer than 10 line breaks and more than 500
\* characters the run-on repair puts a paragraph break after every period that a
\* space and a capital letter follow, whatever letter stands before the
\* period, and puts none after "e.g." and "i.e.": in the repaired text of a
\* one-line document a period with a space and a capital letter after it is
\* left only at the end of such an abbreviation, and no break follows one.
C11_SentenceBreaks ==
    (kpc = "loop" /\ line_no = 0 /\ markdown \in RunOnDocuments) =>
        \E text \in {Repaired} :
            /\ \A j \in Occurrences(text, ". ") :
                   IsUpper(Chr(text, j + 2)) => AfterAbbreviation(text, j)
            /\ \A j \in Occurrences(text, ".\n\n") :
                   IsUpper(Chr(text, j + 3)) => ~AfterAbbreviation(text, j)

\* the URL list a dry run reports: what discovery returned, the one URL, the
\* URLs that were passed in, or the discovered set in some order
ReportsUrlList ==
    IF UsesDiscovery THEN report.discovered_urls = discovered_urls
    ELSE IF entry = "crawl_multiple" /\ deep_crawl
         THEN /\ Elements(report.discovered_urls) = all_discovered
              /\ Len(report.discovered_urls) = Cardinality(all_discovered)
         ELSE report.discovered_urls = o_urls

\* C12: with config.dry_run set, none of the four crawl functions calls
\* crawl_urls or writes a file, and each returns a report with dry_run true,
\* the URL list, and a preview that holds the path of each of the first
\* min(10, total) URLs
C12_DryRunReport ==
    dry_run =>
        /\ crawl_calls = <<>>
        /\ files = {}
        /\ opc # "raised"
        /\ opc = "done" =>
               /\ "dry_run" \in DOMAIN report
               /\ report.dry_run = TRUE
               /\ ReportsUrlList
               /\ report.total_urls = Len(report.discovered_urls)
               /\ Len(report.file_preview) \in {PreviewLimit, report.total_urls}
               /\ Len(report.file_preview) <= PreviewLimit
               /\ Len(report.file_preview) <= report.total_urls
               /\ \A k \in 1..Len(report.file_preview) :
                      report.file_preview[k] =
                          "output/" \o _generate_filename(report.discovered_urls[k])

\* a dry run that has returned a report of more URLs than the preview covers
C12_Witness ==
    /\ dry_run
    /\ opc = "done"
    /\ report.total_urls > PreviewLimit
    /\ Len(report.file_preview) = PreviewLimit

\* C13: in the interactive CLI, while dry run is enabled every crawl mode
\* discovers without crawling: crawl_urls is not running while
\* config.dry_run is set
C13_CliDryRun == config_dry_run => clipc # "crawling"

\* C14: the batch crawl writes one artifact per successfully crawled URL:
\* two distinct URLs of the batch are never written to the same output path,
\* whichever way the crawler is set up to name its files
C14_SeparateArtifacts ==
    \A has_output_manager \in BOOLEAN, organize_by_structure \in BOOLEAN :
        \A i \in written, j \in written :
            BatchUrls[i] # BatchUrls[j] =>
                get_output_path(BatchUrls[i], has_output_manager, organize_by_structure)
                    # get_output_path(BatchUrls[j], has_output_manager, organize_by_structure)

\* a step that starts the fetch of one more URL: the frontier loop gives a
\* URL to crawler.arun, or a batch worker takes its slot and starts
\* crawl_single_url
FetchStarts ==
    \/ clipc = "discovering" /\ clipc' = "discovering"
           /\ Len(fetch_log') > Len(fetch_log)
    \/ clipc = "crawling" /\ clipc' = "crawling"
           /\ \E i \in DOMAIN task :
                  task[i] = "waiting" /\ task'[i] = "fetching"

\* C15: once SIGINT has arrived during a discovery walk or a batch crawl, no
\* fetch of a further URL is started: the frontier loop and the batch
\* workers stop taking new URLs
C15_InterruptStopsFetching == [][interrupted => ~FetchStarts]_vars

\* s is the start of t
IsPrefix(s, t) == Len(s) <= Len(t) /\ SubSeq(t, 1, Len(s)) = s

C17_ErrorIffFailure ==
    \A k \in DOMAIN results :
        /\ (results[k].success = FALSE) <=> (results[k].error # None)
        /\ results[k].success = FALSE => Len(results[k].error) > 0

\* a failure record whose collaborator gave an empty message
C17_Witness ==
    /\ results # <<>>
    /\ results[1].success = FALSE
    /\ page[1].error_message = ""

\* C18: a cleaned body below the threshold is replaced by the cleaned HTML
\* when there is one and by the placeholder when there is none; the record
\* is a success and the short body itself is never the persisted body
C18_ShortBodyReplaced ==
    \A k \in DOMAIN results :
        (/\ results[k].success
         /\ Len(strip(page[results[k].url].markdown)) < MinContentLength)
        => /\ results[k].url \in written
           /\ results[k].markdown =
                  IF page[results[k].url].cleaned_html \notin {None, ""}
                  THEN FallbackNote \o page[results[k].url].cleaned_html
                  ELSE NoContentPlaceholder

\* the links the collaborator reported for page url, in both lists
ReportedLinks(url) == Range(site[url].links) \cup Range(site[url].external)

\* the pages whose links were due to be followed and whose for loop is over
FollowedPages ==
    {url \in DOMAIN site :
        /\ site[url].outcome = "ok"
        /\ MayFollowLinks(depth_map[url])
        /\ url # current_url}

\* every URL that is queued, visited or admitted has the seed's scheme and host
C19_SameDomainOnly ==
    \A u \in Range(to_visit) \cup visited \cup discovered :
        is_same_domain(u, start_url)

\* every link reported on a followed page, in whatever domain, was enqueued
\* (the queue gives each enqueued URL a depth)
C19_ExternalEnqueued ==
    \A url \in FollowedPages : \A link \in ReportedLinks(url) :
        normalize_url(link, url) \in DOMAIN depth_map

\* C19: a link is enqueued only if its scheme and host are the seed's or
\* include_external is set: without include_external every queued, visited
\* or admitted URL has the seed's domain, with include_external the links to
\* other domains that the collaborator reports are enqueued as well
C19_LinkScope ==
    /\ ~include_external => C19_SameDomainOnly
    /\ include_external => C19_ExternalEnqueued

\* a step on which the awaited fetch raises or reports non-success
FetchFailsStep == fetch_failed' # fetch_failed

\* C20: a frontier URL whose fetch raises or reports non-success is not
\* admitted, adds nothing to the frontier, stays visited and is fetched only
\* once, and the walk goes on with the queue as it was: the loop head (after
\* the pacing sleep) is next, never the end of discover_urls by an exception
C20_FailedFetchSkipped ==
    [][/\ FetchFailsStep =>
              /\ fetch_failed' = fetch_failed \cup {current_url}
              /\ to_visit' = to_visit
              /\ depth_map' = depth_map
              /\ url_relationships' = url_relationships
              /\ dpc' \in {"loop", "sleeping"}
       /\ \A u \in fetch_failed' :
              /\ u \notin discovered'
              /\ u \notin DOMAIN url_relationships'
              /\ u \in visited'
              /\ Cardinality({k \in DOMAIN fetch_log' : fetch_log'[k] = u}) = 1
      ]_vars

\* a fetch failed and the walk fetched another URL after it
C20_Witness ==
    /\ dpc = "done"
    /\ \E k \in 1..(Len(fetch_log) - 1) : fetch_log[k] \in fetch_failed

\* the matched nodes that an exclude rule rules out: the node itself or one
\* of its ancestors matches a rule
RuledOut(n) ==
    \E k \in DOMAIN s_exclude : ({n} \cup Ancestors(n)) \cap s_exclude[k] # {}

\* C21: when extract_by_css or extract_by_xpath returns, a matched node is
\* missing from the result exactly when it or one of its ancestors matches
\* an exclude rule; a node that only contains an excluded descendant is kept
C21_ExcludeSelfOrAncestor ==
    (spc = "done" /\ s_selectors # <<>>) =>
        \A n \in Range(Extend(s_selectors)) :
            (n \notin Range(s_result)) <=> RuledOut(n)

\* the URLs whose result record is in the shared results
Appended(list) == {list[k].url : k \in DOMAIN list}

\* the steps of one URL, in order; a failed fetch has nothing to persist
StepRank(s) ==
    CASE s = "created" -> 0
      [] s = "waiting" -> 1
      [] s = "fetching" -> 2
      [] s = "saving" -> 3
      [] s = "sleeping" -> 4
      [] s = "done" -> 5

C23_SummaryOnce ==
    /\ summary_file <= 1
    /\ summary_file = 1 => \A i \in Tasks : task[i] = "done"
    /\ cpc \in {"returned", "raised"} => (cpc = "returned" /\ summary_file = 1)

IsNormalized(url) == normalize_url(url, <<>>) = url

\* C25: every URL that discovery queues, visits or admits, the seed
\* included, is in normalized form, and no two spellings of one page are
\* both visited or both fetched
C25_NormalizedOnly ==
    /\ \A u \in Range(to_visit) \cup visited \cup discovered : IsNormalized(u)
    /\ \A u, v \in visited \cup Range(fetch_log) :
           normalize_url(u, <<>>) = normalize_url(v, <<>>) => u = v

\* a markdown heading of level 2 to 6: the marks, a space and text
IsSectionHeadingLine(line) ==
    LET hashes == RunInside(line, 1, {"#"})
    IN  /\ hashes \in 2..6
        /\ Chr(line, hashes + 1) = " "
        /\ strip(SubSeq(line, hashes + 1, Len(line))) # ""

\* a numbered list item: digits, a period, a space
IsNumberedItemLine(line) ==
    LET digits == RunInside(line, 1, {"0", "1", "2", "3", "4", "5", "6", "7",
                                      "8", "9"})
    IN  digits >= 1 /\ Slice(line, digits + 1, digits + 2) = ". "

\* the line the loop is about to take, stripped
NextStripped == strip(lines[line_no + 1])

\* C26: while content has not started, a level-2 to level-6 heading line of
\* more than 10 characters without a navigation keyword is detected as the
\* start of the main content, however few words it has, and so is a
\* numbered list item of at least 10 characters without such a keyword
C26_HeadingStartsContent ==
    (/\ kpc = "loop" /\ line_no < Len(lines) /\ ~content_started
     /\ ~AnyIn(Elements(nav_indicators), lower(NextStripped))
     /\ \/ IsSectionHeadingLine(NextStripped) /\ Len(NextStripped) > 10
        \/ IsNumberedItemLine(NextStripped) /\ Len(NextStripped) >= 10)
    => _is_main_content_start(NextStripped, title, lines, line_no + 1)

\* a step inside one classification pass (not the start of a call)
InsidePass == kpc \in {"loop", "join"} /\ kpc' \in {"loop", "join", "done"}

\* C27: during one pass content_started only goes from false to true, the
\* navigation-skipping flag is true exactly while content_started is false,
\* no line is added to the output while content_started is false, and the
\* flags are local to the pass: a document cleaned again after another
\* document went through the same cleaner gives the same output as before
C27_FlagsLocal ==
    /\ [](kpc \in {"loop", "join", "done"} /\ markdown # "" =>
              /\ skip_navigation_section = ~content_started
              /\ ~content_started => (cleaned_lines = <<>> /\ kept = {}))
    /\ [][InsidePass =>
              /\ content_started => content_started'
              /\ Len(cleaned_lines') > Len(cleaned_lines) => content_started'
          ]_vars
    /\ []((Len(passes) = 2 /\ kpc = "done") => c_result = passes[1].result)

\* the third call has returned: the document of the first call, cleaned
\* again after a different document of which lines were kept
C27_Witness ==
    /\ Len(passes) = 2
    /\ kpc = "done"
    /\ passes[2].doc # passes[1].doc
    /\ passes[2].result # ""
    /\ c_result # ""
    /\ c_result # markdown
    /\ prev_line # <<>>

\* C28: the late navigation filter (dense link menus, short lines with a
\* navigation term) is applied only to the lines after the one that started
\* the content: the line on which content_started becomes true is kept
C28_StartLineKept ==
    [][(kpc = "loop" /\ ~content_started /\ content_started') =>
           /\ line_no' \in kept'
           /\ Len(cleaned_lines') = Len(cleaned_lines) + 1
      ]_vars

\* C29: whenever discover_urls stops at the max_pages limit with URLs left
\* in the queue, the caller is told so, whatever config.verbose is, and the
\* sorted list of the admitted URLs is returned as usual
C29_LimitReported ==
    (dpc = "done" /\ LimitReached) =>
        /\ limit_notice
        /\ d_return = ReturnedList(discovered)

\* C30: one call of discover_urls gives at most max_pages URLs to
\* crawler.arun, also when the fetched pages fail the patterns or fail to
\* load
C30_FetchesBounded == Len(fetch_log) <= max_pages

====
